---- MODULE Spec2Model ----
(***************************************************************************)
(* Model of the thenjs routing + request-lifecycle engine                  *)
(* (packages/server: Router, EncapsulationContext, ThenApp) and of the     *)
(* RPC dispatch engine (packages/rpc: ProcedureBuilder, RPCHandler).       *)
(*                                                                         *)
(* Strings are sequences of one-character strings, so that splitPath,      *)
(* startsWith, slice and join are computed as the code computes them.      *)
(* A JavaScript value that may be null/undefined is a sequence of length   *)
(* 0 (absent) or 1 (present).                                              *)
(***************************************************************************)
EXTENDS Integers, Sequences, FiniteSets, TLC

VARIABLES
  nodes,      \* Router.root and its descendants, keyed by position in the tree
  routeLog,   \* one entry per addRoute call; a handler is named by its index
  lastMatch,  \* the Router.match call made and what it returned
  scopes,     \* the EncapsulationContext objects; scopes[1] is the root
  adds,       \* number of addHook / decorate / decorateRequest calls so far
  req,        \* the request being handled by ThenApp.handle
  builders,   \* the ProcedureBuilder objects; builders[1] is `procedure`
  defs,       \* the ProcedureDefinitions returned by query() / mutation()
  flatRoutes, \* RPCHandler.flatRoutes, once the handler is constructed
  routerDefinition, \* the routes the RPCHandler was constructed with
  calls,      \* the RPCHandler.handle calls
  wire,       \* the value passed through the wire codec
  clientCall  \* the call made through the client of createRPCClient

appVars == <<nodes, routeLog, lastMatch, scopes, adds, req>>
rpcVars == <<builders, defs, flatRoutes, routerDefinition, calls>>
vars == <<nodes, routeLog, lastMatch, scopes, adds, req,
          builders, defs, flatRoutes, routerDefinition, calls, wire,
          clientCall>>

-----------------------------------------------------------------------------
(* Bounds *)

MaxRoutes == 3
MaxScopes == 3
MaxAdds == 1
MaxAppRoutes == 1
MaxErrorHandlers == 2
MaxSamePhase == 2
MaxBuilders == 3
MaxDefs == 1

-----------------------------------------------------------------------------
(* Small string helpers *)

Slash == "/"

RECURSIVE IndexOfFrom(_, _, _)
IndexOfFrom(s, c, i) ==
  IF i > Len(s) THEN 0
  ELSE IF s[i] = c THEN i
  ELSE IndexOfFrom(s, c, i + 1)

\* String.prototype.split(sep) for a one-character separator
RECURSIVE Split(_, _)
Split(s, sep) ==
  LET i == IndexOfFrom(s, sep, 1) IN
  IF i = 0 THEN <<s>>
  ELSE <<SubSeq(s, 1, i - 1)>> \o Split(SubSeq(s, i + 1, Len(s)), sep)

\* Array.prototype.join(sep)
RECURSIVE Join(_, _)
Join(list, sep) ==
  IF Len(list) = 0 THEN <<>>
  ELSE IF Len(list) = 1 THEN list[1]
  ELSE list[1] \o <<sep>> \o Join(Tail(list), sep)

StartsWith(s, c) == Len(s) > 0 /\ s[1] = c

\* seg.slice(1)
Slice1(s) == SubSeq(s, 2, Len(s))

\* JavaScript truthiness of an optional string: present and not ""
Truthy(opt) == Len(opt) = 1 /\ opt[1] # <<>>

-----------------------------------------------------------------------------
(* Router: packages/server/src/router.ts *)

\* A node is identified by the edges leading to it from the root.
StaticEdge(seg) == <<"s", seg>>
ParamEdge == <<"p", <<>>>>
WildEdge == <<"w", <<>>>>

RootKey == <<>>

WildDefault == <<"w", "i", "l", "d">>

createNode(segment) ==
  [segment |-> segment, paramName |-> <<>>, wildcardName |-> <<>>,
   routes |-> <<>>]

splitPath(path) == SelectSeq(Split(path, Slash), LAMBDA x : x # <<>>)

HasNode(ns, key) == key \in DOMAIN ns

\* Variant of RoutesSet that keeps an existing entry (first write wins)
RoutesSetKeepFirst(routes, method, route) ==
  [m \in (DOMAIN routes) \cup {method} |->
     IF m \in DOMAIN routes THEN routes[m] ELSE route]

\* routes is a Map<RouteMethod, InternalRoute>: a function on the methods set
RoutesSet(routes, method, route) ==
  [m \in (DOMAIN routes) \cup {method} |->
     IF m = method THEN route ELSE routes[m]]

\* The for-loop of addRoute: returns the node map after the creations and
\* the key of the node the route is stored on.
RECURSIVE Descend(_, _, _, _)
Descend(ns, key, segments, i) ==
  IF i > Len(segments) THEN [nodes |-> ns, key |-> key]
  ELSE
    LET seg == segments[i] IN
    IF StartsWith(seg, ":") THEN
      LET ck == Append(key, ParamEdge)
          ns2 == IF HasNode(ns, ck) THEN ns
                 ELSE (ck :> createNode(seg)) @@
                      [ns EXCEPT ![key].paramName = <<Slice1(seg)>>]
      IN Descend(ns2, ck, segments, i + 1)
    ELSE IF StartsWith(seg, "*") THEN
      LET ck == Append(key, WildEdge)
          nm == IF Slice1(seg) # <<>> THEN Slice1(seg) ELSE WildDefault
          ns2 == IF HasNode(ns, ck) THEN ns
                 ELSE (ck :> createNode(seg)) @@
                      [ns EXCEPT ![key].wildcardName = <<nm>>]
      IN [nodes |-> ns2, key |-> ck]
    ELSE
      LET ck == Append(key, StaticEdge(seg))
          ns2 == IF HasNode(ns, ck) THEN ns
                 ELSE (ck :> createNode(seg)) @@ ns
      IN Descend(ns2, ck, segments, i + 1)

\* hooks?.x ?? []
RouteRecord(method, url, handler, hooks) ==
  [method |-> method, url |-> url, handler |-> handler, hooks |-> hooks]

NoHooks == [onRequest |-> <<>>, preHandler |-> <<>>, preSerialization |-> <<>>]

RouterAddRoute(ns, method, url, handler, hooks) ==
  LET d == Descend(ns, RootKey, splitPath(url), 1)
      route == RouteRecord(method, url, handler, hooks)
  IN [d.nodes EXCEPT ![d.key].routes = RoutesSet(@, method, route)]

ParamsSet(params, name, value) ==
  [n \in (DOMAIN params) \cup {name} |->
     IF n = name THEN value ELSE params[n]]

ParamsDelete(params, name) ==
  [n \in (DOMAIN params) \ {name} |-> params[n]]

\* matchNode: returns the node found (absent for null) and the params
\* object as the call leaves it (params is mutated in place).
RECURSIVE matchNode(_, _, _, _, _)
matchNode(ns, key, segments, index, params) ==
  IF index > Len(segments) THEN
    [node |-> IF DOMAIN ns[key].routes # {} THEN <<key>> ELSE <<>>,
     params |-> params]
  ELSE
    LET seg == segments[index]
        sk == Append(key, StaticEdge(seg))
        r1 == IF HasNode(ns, sk)
              THEN matchNode(ns, sk, segments, index + 1, params)
              ELSE [node |-> <<>>, params |-> params]
    IN
    IF r1.node # <<>> THEN r1
    ELSE
      LET pk == Append(key, ParamEdge)
          tryParam == HasNode(ns, pk) /\ Truthy(ns[key].paramName)
          r2 == IF tryParam
                THEN matchNode(ns, pk, segments, index + 1,
                               ParamsSet(r1.params, ns[key].paramName[1], seg))
                ELSE [node |-> <<>>, params |-> r1.params]
      IN
      IF r2.node # <<>> THEN r2
      ELSE
        LET p3 == IF tryParam
                  THEN ParamsDelete(r2.params, ns[key].paramName[1])
                  ELSE r2.params
            wk == Append(key, WildEdge)
        IN
        IF HasNode(ns, wk) /\ Truthy(ns[key].wildcardName)
        THEN [node |-> <<wk>>,
              params |-> ParamsSet(p3, ns[key].wildcardName[1],
                                   Join(SubSeq(segments, index, Len(segments)), Slash))]
        ELSE [node |-> <<>>, params |-> p3]

\* Router.match: absent (<<>>) for null, else <<RouteMatch>>
RouterMatch(ns, method, pathname) ==
  LET result == matchNode(ns, RootKey, splitPath(pathname), 1, <<>>) IN
  IF result.node = <<>> THEN <<>>
  ELSE
    LET rs == ns[result.node[1]].routes IN
    IF method \notin DOMAIN rs THEN <<>>
    ELSE <<[handler |-> rs[method].handler,
            params |-> result.params,
            route |-> rs[method]]>>

-----------------------------------------------------------------------------
(* Inputs of the router operations *)

Methods == {"GET", "POST"}

Patterns ==
  { <<"/", "u", "/", "m">>,
    <<"/", "u", "/", ":", "i">>,
    <<"/", "u", "/", ":", "j", "/", "p">>,
    <<"/", "f", "/", "*", "p">>,
    <<"/", "f", "/", "*", "q">>,
    <<"/", "f", "/", "*">>,
    <<"/", "u", "/", "*", "r">>,
    <<"/", ":", "i", "/", "*", "r">>,
    <<"/", ":", "k", "/", ":", "i">> }

ReqPaths ==
  { <<"/", "u", "/", "m">>,
    <<"/", "u", "/", "4">>,
    <<"/", "u", "/", "4", "/", "p">>,
    <<"/", "u", "/", "m", "/", "p">>,
    <<"/", "u", "/", "4", "/", "m">>,
    <<"/", "f", "/", "d", "/", "r">>,
    <<"/", "f", "/", "/", "d", "/">>,
    <<"/", "f">> }

-----------------------------------------------------------------------------
(* Encapsulation scopes and hook store: packages/server/src/app.ts *)

HookNames ==
  {"onRequest", "preParsing", "preValidation", "preHandler",
   "preSerialization", "onSend", "onResponse", "onError"}

createHookStore == [p \in HookNames |-> <<>>]

\* A hook function added with addHook is named by the scope that added it,
\* the phase, and its rank among that scope's own additions to the phase.
\* A hook passed inline in RouteOptions has owner 0 and k = the route's index.
HookId(owner, phase, k) == [owner |-> owner, phase |-> phase, k |-> k]

OwnCount(hookList, s) ==
  Cardinality({i \in 1..Len(hookList) : hookList[i].owner = s})

\* new EncapsulationContext(parent, prefix, parentRouter); parent = 0 is null.
\* born records how many hooks of its own the parent had in each phase when
\* the child was created (it is not read by the program).
NewContext(scs, parent, prefix) ==
  IF parent # 0
  THEN [parent |-> parent,
        prefix |-> scs[parent].prefix \o prefix,
        hooks |-> [p \in HookNames |-> scs[parent].hooks[p]],
        decorations |-> scs[parent].decorations,
        requestDecorations |-> scs[parent].requestDecorations,
        children |-> <<>>,
        born |-> [p \in HookNames |-> OwnCount(scs[parent].hooks[p], parent)]]
  ELSE [parent |-> 0,
        prefix |-> prefix,
        hooks |-> createHookStore,
        decorations |-> <<>>,
        requestDecorations |-> <<>>,
        children |-> <<>>,
        born |-> [p \in HookNames |-> 0]]

\* createChild: the child is appended to the scope table and to children
createChild(scs, s, prefix) ==
  LET c == Len(scs) + 1 IN
  Append([scs EXCEPT ![s].children = Append(@, c)], NewContext(scs, s, prefix))

\* Map.set on a decoration map
MapSet(map, name, value) ==
  [n \in (DOMAIN map) \cup {name} |-> IF n = name THEN value ELSE map[n]]

\* opts?.x ? (Array.isArray(opts.x) ? opts.x : [opts.x]) : []
InlineHooks(opts, phase, rid) ==
  IF phase \in opts THEN <<HookId(0, phase, rid)>> ELSE <<>>

\* Variant of FrozenHooks that puts the hooks passed with the route first
FrozenHooksInlineFirst(sc, opts, rid) ==
  [onRequest |-> InlineHooks(opts, "onRequest", rid) \o sc.hooks["onRequest"],
   preHandler |-> InlineHooks(opts, "preHandler", rid) \o sc.hooks["preHandler"],
   preSerialization |->
     InlineHooks(opts, "preSerialization", rid) \o sc.hooks["preSerialization"]]

\* the hooks object addRoute passes to router.addRoute
FrozenHooks(sc, opts, rid) ==
  [onRequest |-> sc.hooks["onRequest"] \o InlineHooks(opts, "onRequest", rid),
   preHandler |-> sc.hooks["preHandler"] \o InlineHooks(opts, "preHandler", rid),
   preSerialization |->
     sc.hooks["preSerialization"] \o InlineHooks(opts, "preSerialization", rid)]

-----------------------------------------------------------------------------
(* Request lifecycle: ThenApp.handle / runLifecycle / runHooks / handleError *)

\* Variant of PhaseSeq that calls the handler before the preHandler hooks
PhaseSeqHandlerEarly ==
  <<"onRequest", "preParsing", "body", "preValidation", "handler",
    "preHandler", "preSerialization", "onSend", "onResponse">>

\* The steps of runLifecycle in program order
PhaseSeq ==
  <<"onRequest", "preParsing", "body", "preValidation", "preHandler",
    "handler", "preSerialization", "onSend", "onResponse">>

RouteFrozenPhases == {"onRequest", "preHandler", "preSerialization"}

\* What a user function does when it is invoked:
\*   pass    returns undefined
\*   respond returns a Response it built itself
\*   reply   returns reply.json(..) / reply.send(..): a Response, reply.sent set
\*   sent    calls reply.json(..) / reply.send(..) and returns undefined
\*   throw   throws (or rejects)
Behaviours == {"pass", "respond", "reply", "sent", "throw"}

\* parseBody either stores a deserialized body ("parsed") or leaves
\* parsedBody undefined ("undefined": deserialization threw and the error was
\* swallowed, or no branch matched the content type)
BodyOutcomes == {"parsed", "undefined"}

Step(phase, who, out) == [phase |-> phase, who |-> who, out |-> out]

\* handler(error, request, reply) in handleError: arg is the error passed
ErrorCall(who, out, arg) ==
  [phase |-> "onError", who |-> who, out |-> out, arg |-> arg]

Resp(kind, by) == [kind |-> kind, by |-> by]

\* The Error objects user code throws: message and optional statusCode
AppError(message, statusCode) ==
  [message |-> message, statusCode |-> statusCode]

AppErrors == { AppError("denied", <<403>>), AppError("", <<>>) }

\* Variant of DefaultErrorResponse that always answers 500
DefaultErrorResponse500(error, by) ==
  [kind |-> "defaultError", by |-> by, status |-> 500,
   body |-> [error |-> IF error.message # "" THEN error.message
                       ELSE "Internal Server Error",
             statusCode |-> 500]]

\* the default error response of handleError
DefaultErrorResponse(error, by) ==
  LET status == IF error.statusCode # <<>> THEN error.statusCode[1] ELSE 500 IN
  [kind |-> "defaultError", by |-> by, status |-> status,
   body |-> [error |-> IF error.message # "" THEN error.message
                       ELSE "Internal Server Error",
             statusCode |-> status]]

IdleReq ==
  [st |-> "idle", method |-> "", path |-> <<>>, route |-> <<>>,
   params |-> <<>>, decor |-> <<>>, pi |-> 0, hi |-> 0, sent |-> FALSE,
   response |-> <<>>, err |-> <<>>, error |-> <<>>, result |-> <<>>,
   trace |-> <<>>]

\* the hook list runLifecycle passes to runHooks for a phase
PhaseHooks(scs, r, phase) ==
  IF phase \in RouteFrozenPhases
  THEN r.route[1].hooks[phase]
  ELSE scs[1].hooks[phase]

Finish(r, response) == [r EXCEPT !.st = "done", !.result = <<response>>]

\* Variant of ErrorHandlers that takes the error handlers of the scope in
\* which the route was registered
ErrorHandlersOfScope(scs, r) ==
  scs[routeLog[r.route[1].handler].scope].hooks["onError"]

\* the handlers handleError iterates over: this.rootContext.hooks.onError
ErrorHandlers(scs, r) == scs[1].hooks["onError"]

\* Moves to the next point where user code (or body parsing) runs: an
\* exhausted hook list makes runHooks return null and runLifecycle go on.
RECURSIVE Settle(_, _)
Settle(scs, r) ==
  IF r.st = "run" THEN
    IF PhaseSeq[r.pi] \in {"body", "handler"} THEN r
    ELSE IF r.hi <= Len(PhaseHooks(scs, r, PhaseSeq[r.pi])) THEN r
    ELSE IF r.pi = Len(PhaseSeq) THEN Finish(r, r.response[1])
    ELSE Settle(scs, [r EXCEPT !.pi = @ + 1, !.hi = 1])
  ELSE IF r.st = "error" THEN
    IF r.hi <= Len(ErrorHandlers(scs, r)) THEN r
    ELSE Finish(r, DefaultErrorResponse(r.error[1], r.err[1]))
  ELSE r

\* catch (error) { return this.handleError(..) } in handle
Throw(scs, r, who, error) ==
  Settle(scs, [r EXCEPT !.st = "error", !.err = <<who>>,
                        !.error = <<error>>, !.hi = 1])

NextPhase(scs, r) == Settle(scs, [r EXCEPT !.pi = @ + 1, !.hi = 1])

\* Variant of HookReturn that drops the Response a hook returns
HookReturnDropped(hook, b, sentNow) ==
  IF sentNow THEN <<Resp("sendNull", hook)>> ELSE <<>>

\* The value runHooks returns after the hook at r.hi ran with behaviour b:
\* <<>> for "keep iterating", else the early Response.
HookReturn(hook, b, sentNow) ==
  IF b \in {"respond", "reply"} THEN <<Resp("hook", hook)>>
  ELSE IF sentNow THEN <<Resp("sendNull", hook)>>
  ELSE <<>>

\* Variant of AfterHook that runs the onResponse hooks through runHooks
AfterHookAwaitsOnResponse(scs, r, hook, b, error) ==
  LET phase == PhaseSeq[r.pi]
      sentNow == r.sent \/ b \in {"reply", "sent"}
      r1 == [r EXCEPT !.sent = sentNow,
                      !.trace = Append(@, Step(phase, hook, b))]
      early == HookReturn(hook, b, sentNow)
  IN
  IF b = "throw" THEN
    Throw(scs, [r EXCEPT !.trace = Append(@, Step(phase, hook, b))], hook,
          error)
  ELSE IF early = <<>> THEN Settle(scs, [r1 EXCEPT !.hi = @ + 1])
  ELSE IF phase \in {"preSerialization", "onSend"} THEN
    NextPhase(scs, r1)
  ELSE Finish(r1, early[1])

\* One iteration of the loop of runHooks, with what runLifecycle does with
\* the value returned.
AfterHook(scs, r, hook, b, error) ==
  LET phase == PhaseSeq[r.pi]
      sentNow == r.sent \/ b \in {"reply", "sent"}
      r1 == [r EXCEPT !.sent = sentNow,
                      !.trace = Append(@, Step(phase, hook, b))]
      early == HookReturn(hook, b, sentNow)
  IN
  IF phase = "onResponse" THEN Settle(scs, [r1 EXCEPT !.hi = @ + 1])
  ELSE IF b = "throw" THEN
    Throw(scs, [r EXCEPT !.trace = Append(@, Step(phase, hook, b))], hook,
          error)
  ELSE IF early = <<>> THEN Settle(scs, [r1 EXCEPT !.hi = @ + 1])
  ELSE IF phase \in {"preSerialization", "onSend"} THEN
    \* the value returned by runHooks is not used
    NextPhase(scs, r1)
  ELSE Finish(r1, early[1])

\* parseBody
ParseOutcomes(method) ==
  IF method \in {"GET", "HEAD"} THEN {"skipped"} ELSE BodyOutcomes

\* Variant of AfterBody that escalates a failed deserialization to handleError
AfterBodyEscalates(scs, r, out) ==
  LET r1 == [r EXCEPT !.trace = Append(@, Step("body", <<>>, out))] IN
  IF out = "undefined" THEN Throw(scs, r1, <<>>, AppError("", <<>>))
  ELSE NextPhase(scs, r1)

AfterBody(scs, r, out) ==
  NextPhase(scs, [r EXCEPT !.trace = Append(@, Step("body", <<>>, out))])

\* Variant of AfterHandler that ignores reply.sent when the handler returned
\* no Response
AfterHandlerNoReplyStatus(scs, r, b, error) ==
  LET h == r.route[1].handler
      r1 == [r EXCEPT !.trace = Append(@, Step("handler", h, b))]
      sentNow == r.sent \/ b \in {"reply", "sent"}
      response ==
        IF b \in {"respond", "reply"} THEN Resp("handler", h)
        ELSE Resp("204", h)
  IN
  IF b = "throw" THEN Throw(scs, r1, h, error)
  ELSE NextPhase(scs, [r1 EXCEPT !.sent = sentNow, !.response = <<response>>])

\* step 7 of runLifecycle: the handler call and the normalisation of its result
AfterHandler(scs, r, b, error) ==
  LET h == r.route[1].handler
      r1 == [r EXCEPT !.trace = Append(@, Step("handler", h, b))]
      sentNow == r.sent \/ b \in {"reply", "sent"}
      response ==
        IF b \in {"respond", "reply"} THEN Resp("handler", h)
        ELSE IF sentNow THEN Resp("replyStatus", h)
        ELSE Resp("204", h)
  IN
  IF b = "throw" THEN Throw(scs, r1, h, error)
  ELSE NextPhase(scs, [r1 EXCEPT !.sent = sentNow, !.response = <<response>>])

\* one iteration of the loop of handleError
AfterErrorHandler(scs, r, hook, b) ==
  LET r1 == [r EXCEPT !.trace = Append(@, ErrorCall(hook, b, r.error[1]))] IN
  IF b \in {"respond", "reply"} THEN Finish(r1, Resp("onError", hook))
  ELSE Settle(scs, [r1 EXCEPT !.hi = @ + 1])

\* request decorations applied by handle (root context only)
ApplyRequestDecorations(scs) == scs[1].requestDecorations

\* Variant of StartRequest that applies the request decorations before the
\* route is matched
StartRequestDecoratesFirst(scs, ns, method, path) ==
  LET m == RouterMatch(ns, method, path)
      base == [IdleReq EXCEPT !.method = method, !.path = path,
                              !.decor = ApplyRequestDecorations(scs)]
  IN
  IF m = <<>> THEN Finish(base, Resp("404", <<>>))
  ELSE Settle(scs, [base EXCEPT !.st = "run", !.route = <<m[1].route>>,
                                !.params = m[1].params,
                                !.pi = 1, !.hi = 1])

\* handle up to the first suspension point
StartRequest(scs, ns, method, path) ==
  LET m == RouterMatch(ns, method, path)
      base == [IdleReq EXCEPT !.method = method, !.path = path]
  IN
  IF m = <<>> THEN Finish(base, Resp("404", <<>>))
  ELSE Settle(scs, [base EXCEPT !.st = "run", !.route = <<m[1].route>>,
                                !.params = m[1].params,
                                !.decor = ApplyRequestDecorations(scs),
                                !.pi = 1, !.hi = 1])

-----------------------------------------------------------------------------
(* Inputs of the application operations *)

AppPaths ==
  { <<"/", "x">>, <<"/", "a", "/", "x">>, <<"/", "a", "/", "a", "/", "x">> }
RouteOptSets == { {}, RouteFrozenPhases }
DecorNames == {"d"}

-----------------------------------------------------------------------------
(* RPC: ProcedureBuilder (packages/rpc procedure builder) *)

\* The middleware functions a program passes to createProcedure and use
MwIds == {1, 2}

\* The argument lists of createProcedure(...middlewares)
CreateArgs == { <<1>>, <<1, 2>> }

\* Schemas handed to input() / output(): objects that already have
\* validate and toJsonSchema
SchemaInputs == { [lib |-> "standard", id |-> "S"] }

fromSchema(schema) ==
  IF schema.lib = "standard" THEN schema
  ELSE [lib |-> "standard", id |-> schema.id]

\* One builder call, remembered with its argument (the history of a builder
\* is not program state; the properties below are stated over it)
Op(name, arg) == [op |-> name, arg |-> arg]

\* new ProcedureBuilder(middlewares): the array is copied
ProcedureBuilder(middlewares, ops) ==
  [inputSchema |-> <<>>, outputSchema |-> <<>>,
   middlewares |-> [i \in 1..Len(middlewares) |-> middlewares[i]],
   ops |-> ops]

BuilderInput(b, schema) ==
  [ProcedureBuilder(b.middlewares, Append(b.ops, Op("input", <<>>)))
     EXCEPT !.inputSchema = <<fromSchema(schema)>>,
            !.outputSchema = b.outputSchema]

BuilderOutput(b, schema) ==
  [ProcedureBuilder(b.middlewares, Append(b.ops, Op("output", <<>>)))
     EXCEPT !.inputSchema = b.inputSchema,
            !.outputSchema = <<fromSchema(schema)>>]

BuilderUse(b, middleware) ==
  [ProcedureBuilder(Append(b.middlewares, middleware),
                    Append(b.ops, Op("use", <<middleware>>)))
     EXCEPT !.inputSchema = b.inputSchema,
            !.outputSchema = b.outputSchema]

\* _build(type, handler): the definition wraps the handler in a fresh
\* function, named here by the number of the definition
Build(b, type, handler) ==
  [type |-> type,
   inputSchema |-> b.inputSchema,
   outputSchema |-> b.outputSchema,
   handler |-> handler,
   middlewares |-> b.middlewares,
   ops |-> b.ops]

-----------------------------------------------------------------------------
(* RPC: wire codec (packages/rpc/src/wire.ts) *)

\* A JavaScript value is a record whose field t names its type. The text of
\* a string is a sequence of pieces: one-character pieces where an operation
\* looks inside the text (digits, '/', flags), one piece for text that is
\* only compared as a whole (tag names, ISO timestamps). A string that
\* JSON.stringify produced is represented by the document it denotes (field
\* json), after the losses JSON.stringify applies.
Str(s) == [t |-> "string", s |-> s, json |-> <<>>]

Arr(items) == [t |-> "array", items |-> items]

\* an object literal; entries are <<key, value>> in insertion order
Obj(entries) == [t |-> "object", entries |-> entries]

\* { __t: tag, v: payload }
Tagged(tag, payload) ==
  Obj(<< <<"__t", Str(<<tag>>)>>, <<"v", payload>> >>)

\* the outcome of an evaluation that threw
Thrown == [t |-> "throw"]

AnyThrown(items) == \E i \in 1..Len(items) : items[i] = Thrown

\* Date.prototype.toISOString for the instants 0 ms and 1 ms
IsoStrings == <<"1970-01-01T00:00:00.000Z", "1970-01-01T00:00:00.001Z">>

\* new Date(v): the time value, <<>> for an invalid date
NewDate(v) ==
  IF v.t = "string" THEN
    IF v.json = <<>> /\ \E i \in 1..Len(IsoStrings) : v.s = <<IsoStrings[i]>>
    THEN <<(CHOOSE i \in 1..Len(IsoStrings) : v.s = <<IsoStrings[i]>>) - 1>>
    ELSE <<>>
  ELSE IF v.t = "number" /\ ~v.nan THEN <<v.n>>
  ELSE IF v.t = "null" THEN <<0>>
  ELSE <<>>

BigInts == (0 - 99)..99

\* BigInt(v) for a string or a number: the bigint, or Thrown (SyntaxError for
\* text that is not an integer, TypeError for other types). The decimal text
\* of a bigint is one piece, ToString(n) as BigInt.prototype.toString gives.
NewBigInt(v) ==
  IF v.t = "string" /\ v.json = <<>> THEN
    IF v.s = <<>> THEN [t |-> "bigint", n |-> 0]
    ELSE IF \E n \in BigInts : v.s = <<ToString(n)>>
    THEN [t |-> "bigint", n |-> CHOOSE n \in BigInts : v.s = <<ToString(n)>>]
    ELSE Thrown
  ELSE IF v.t = "number" /\ ~v.nan THEN [t |-> "bigint", n |-> v.n]
  ELSE Thrown

\* JSON.stringify of a value made of null, booleans, numbers, strings,
\* arrays and objects, as the document the text denotes: NaN becomes null
RECURSIVE JSONstringify(_)
JSONstringify(value) ==
  CASE value.t = "number" ->
         IF value.nan THEN [t |-> "null"] ELSE value
    [] value.t = "array" ->
         Arr([i \in 1..Len(value.items) |-> JSONstringify(value.items[i])])
    [] value.t = "object" ->
         Obj([i \in 1..Len(value.entries) |->
                <<value.entries[i][1], JSONstringify(value.entries[i][2])>>])
    [] OTHER -> value

\* (JSON.parse(v) as unknown[]).map: <<the items of the array>>, or <<>>
\* when it throws (SyntaxError for text that is not JSON, TypeError when the
\* document is not an array)
JSONparseArray(v) ==
  IF v.t = "string" /\ v.json # <<>> /\ v.json[1].t = "array"
  THEN <<v.json[1].items>>
  ELSE <<>>

\* the types whose values SameValueZero compares by value
PrimitiveTypes ==
  {"null", "boolean", "number", "string", "undefined", "bigint"}

\* new Set(items): later duplicates of a primitive are dropped; objects are
\* distinct from each other
RECURSIVE NewSet(_)
NewSet(items) ==
  IF items = <<>> THEN <<>>
  ELSE LET front == NewSet(SubSeq(items, 1, Len(items) - 1))
           last == items[Len(items)]
       IN
       IF /\ last.t \in PrimitiveTypes
          /\ \E i \in 1..Len(front) : front[i] = last
       THEN front
       ELSE Append(front, last)

\* new Map(entries): a later entry for a key replaces the value in place
RECURSIVE NewMap(_)
NewMap(entries) ==
  IF entries = <<>> THEN <<>>
  ELSE LET front == NewMap(SubSeq(entries, 1, Len(entries) - 1))
           last == entries[Len(entries)]
           same == {i \in 1..Len(front) :
                      last[1].t \in PrimitiveTypes /\ front[i][1] = last[1]}
       IN
       IF same # {}
       THEN [i \in 1..Len(front) |-> IF i \in same THEN last ELSE front[i]]
       ELSE Append(front, last)

\* new RegExp(v): the source escapes each '/' of the pattern
RECURSIVE EscapeSlashes(_)
EscapeSlashes(s) ==
  IF s = <<>> THEN <<>>
  ELSE (IF Head(s) = "/" THEN <<"\\", "/">> ELSE <<Head(s)>>)
       \o EscapeSlashes(Tail(s))

\* v.match(/^\/(.+)\/([gimsuy]*)$/) and the RegExp built from it: the greedy
\* group ends at the last '/', which must be followed by flags only
RegExpFromString(v) ==
  LET slashes == {i \in 3..Len(v) : v[i] = "/"}
      last == IF slashes = {} THEN 0
              ELSE CHOOSE i \in slashes : \A j \in slashes : j <= i
      flags == IF last = 0 THEN <<>> ELSE SubSeq(v, last + 1, Len(v))
  IN
  IF /\ v # <<>> /\ v[1] = "/" /\ last # 0
     /\ \A i \in 1..Len(flags) : flags[i] \in {"g", "i", "m", "s", "u", "y"}
  THEN [t |-> "RegExp", source |-> SubSeq(v, 2, last - 1), flags |-> flags]
  ELSE [t |-> "RegExp", source |-> EscapeSlashes(v), flags |-> <<>>]

\* the string JSON.stringify(value)
JsonText(value) ==
  [t |-> "string", s |-> <<>>, json |-> <<JSONstringify(value)>>]

\* encode(value). A value of the dispatch model (a record without the field
\* t) stands for a string and is returned as it is.
RECURSIVE encode(_)
encode(value) ==
  IF "t" \notin DOMAIN value THEN value
  ELSE
  CASE value.t = "undefined" -> Tagged("Undefined", Str(<<>>))
    [] value.t \in {"null", "boolean", "number", "string"} -> value
    [] value.t = "Date" ->
         IF value.time = <<>> THEN Thrown   \* toISOString: RangeError
         ELSE Tagged("Date", Str(<<IsoStrings[value.time[1] + 1]>>))
    [] value.t = "bigint" -> Tagged("BigInt", Str(<<ToString(value.n)>>))
    [] value.t = "Set" ->
         LET enc == [i \in 1..Len(value.items) |-> encode(value.items[i])] IN
         IF AnyThrown(enc) THEN Thrown
         ELSE Tagged("Set", JsonText(Arr(enc)))
    [] value.t = "Map" ->
         LET ks == [i \in 1..Len(value.items) |-> encode(value.items[i][1])]
             vs == [i \in 1..Len(value.items) |-> encode(value.items[i][2])]
         IN
         IF AnyThrown(ks) \/ AnyThrown(vs) THEN Thrown
         ELSE Tagged("Map", JsonText(
                Arr([i \in 1..Len(ks) |-> Arr(<<ks[i], vs[i]>>)])))
    [] value.t = "RegExp" ->   \* toString: /source/flags
         Tagged("RegExp",
                Str(<<"/">> \o value.source \o <<"/">> \o value.flags))
    [] value.t = "array" ->
         LET enc == [i \in 1..Len(value.items) |-> encode(value.items[i])] IN
         IF AnyThrown(enc) THEN Thrown ELSE Arr(enc)
    [] value.t = "object" ->
         LET enc == [i \in 1..Len(value.entries) |->
                       encode(value.entries[i][2])]
         IN
         IF AnyThrown(enc) THEN Thrown
         ELSE Obj([i \in 1..Len(enc) |-> <<value.entries[i][1], enc[i]>>])
    [] OTHER -> value

\* obj[key] for an own property
Get(obj, key) ==
  obj.entries[CHOOSE i \in 1..Len(obj.entries) : obj.entries[i][1] = key][2]

\* Variant of DefaultCase that returns the payload of the container
DefaultCaseAsPayload(obj) == Get(obj, "v")

\* default: return obj
DefaultCase(obj) == obj

\* decode(value)
RECURSIVE decode(_)
decode(value) ==
  CASE value.t \in {"null", "boolean", "number", "string"} -> value
    [] value.t = "array" ->
         LET dec == [i \in 1..Len(value.items) |-> decode(value.items[i])] IN
         IF AnyThrown(dec) THEN Thrown ELSE Arr(dec)
    [] value.t = "object" ->
         IF {"__t", "v"} \subseteq
              {value.entries[i][1] : i \in 1..Len(value.entries)} THEN
           LET tag == Get(value, "__t")
               v == Get(value, "v")
           IN
           CASE tag = Str(<<"Date">>) -> [t |-> "Date", time |-> NewDate(v)]
             [] tag = Str(<<"BigInt">>) -> NewBigInt(v)
             [] tag = Str(<<"Undefined">>) -> [t |-> "undefined"]
             [] tag = Str(<<"Set">>) ->
                  LET parsed == JSONparseArray(v) IN
                  IF parsed = <<>> THEN Thrown
                  ELSE LET dec == [i \in 1..Len(parsed[1]) |->
                                     decode(parsed[1][i])]
                       IN
                       IF AnyThrown(dec) THEN Thrown
                       ELSE [t |-> "Set", items |-> NewSet(dec)]
             [] tag = Str(<<"Map">>) ->
                  LET parsed == JSONparseArray(v) IN
                  \* ([k, val]) => ..: an entry that is not an array
                  \* throws, a missing element is undefined
                  IF parsed = <<>> THEN Thrown
                  ELSE IF \E i \in 1..Len(parsed[1]) :
                            parsed[1][i].t # "array"
                       THEN Thrown
                  ELSE LET at(e, n) == IF n <= Len(e.items) THEN e.items[n]
                                       ELSE [t |-> "undefined"]
                           ks == [i \in 1..Len(parsed[1]) |->
                                    decode(at(parsed[1][i], 1))]
                           vs == [i \in 1..Len(parsed[1]) |->
                                    decode(at(parsed[1][i], 2))]
                       IN
                       IF AnyThrown(ks) \/ AnyThrown(vs) THEN Thrown
                       ELSE [t |-> "Map",
                             items |-> NewMap([i \in 1..Len(ks) |->
                                                 <<ks[i], vs[i]>>])]
             [] tag = Str(<<"RegExp">>) ->
                  IF v.t = "string" /\ v.json = <<>>
                  THEN RegExpFromString(v.s)
                  ELSE Thrown
             [] OTHER -> DefaultCase(value)
         ELSE
           LET dec == [i \in 1..Len(value.entries) |->
                         decode(value.entries[i][2])]
           IN
           IF AnyThrown(dec) THEN Thrown
           ELSE Obj([i \in 1..Len(dec) |-> <<value.entries[i][1], dec[i]>>])
    [] OTHER -> value

\* The values handed to encode: every supported type, nested to depth 2
WireValues ==
  LET atoms ==
        { [t |-> "null"], [t |-> "boolean", b |-> TRUE],
          [t |-> "number", n |-> 1, nan |-> FALSE],
          [t |-> "number", n |-> 0, nan |-> TRUE],
          Str(<<"a">>), [t |-> "undefined"],
          [t |-> "Date", time |-> <<1>>], [t |-> "Date", time |-> <<>>],
          [t |-> "bigint", n |-> 0 - 12],
          [t |-> "RegExp", source |-> <<"a">>, flags |-> <<"g", "i">>],
          [t |-> "RegExp", source |-> <<"a", "\\", "/", "b">>,
           flags |-> <<>>],
          [t |-> "RegExp", source |-> <<"a">>, flags |-> <<"d">>] }
      wrap(S) ==
        {Arr(<<x>>) : x \in S}
        \cup {Arr(<<[t |-> "undefined"], x>>) : x \in S}
        \cup {Obj(<< <<"k", x>> >>) : x \in S}
        \cup {Obj(<< <<"__t", Str(<<"X">>)>>, <<"v", x>> >>) : x \in S}
        \cup {[t |-> "Set", items |-> <<x>>] : x \in S}
        \cup {[t |-> "Map", items |-> << <<Str(<<"a">>), x>> >>] : x \in S}
  IN atoms \cup wrap(atoms) \cup wrap(wrap(atoms))

\* The documents handed to decode as they arrive: tagged containers with
\* known and unknown tags, alone and nested in arrays and objects
WireDocuments ==
  LET date == Tagged("Date", Str(<<IsoStrings[1]>>))
      unknown ==
        { Tagged("X", Str(<<"a">>)),
          Tagged("X", date),
          Tagged("date", Arr(<<Tagged("BigInt", Str(<<"x">>))>>)),
          Obj(<< <<"__t", [t |-> "null"]>>, <<"v", date>> >>),
          Obj(<< <<"v", date>>, <<"k", date>>, <<"__t", Str(<<"X">>)>> >>) }
      atoms ==
        unknown \cup { [t |-> "null"], Str(<<"a">>), date,
                       Tagged("BigInt", Str(<<"7">>)),
                       Tagged("BigInt", Str(<<"x">>)),
                       Tagged("Set", JsonText(Arr(<<Tagged("X", date)>>))) }
      wrap(S) == {Arr(<<x>>) : x \in S}
                 \cup {Arr(<<date, x>>) : x \in S}
                 \cup {Obj(<< <<"k", x>> >>) : x \in S}
  IN atoms \cup wrap(atoms) \cup wrap(wrap(atoms))

-----------------------------------------------------------------------------
(* RPC: RPCHandler (packages/rpc/src/router.ts) *)

\* A router definition is an object whose values are procedure definitions
\* or nested router definitions. A value that is itself a router definition
\* has objects for all its properties, so its `type`, if it has that key, is
\* never one of the two strings: only a procedure definition passes.
isProcedure(value) ==
  /\ "type" \in DOMAIN value
  /\ "handler" \in DOMAIN value
  /\ value.type \in {"query", "mutation"}

RECURSIVE ToStr(_)
ToStr(chars) == IF chars = <<>> THEN "" ELSE chars[1] \o ToStr(Tail(chars))

\* flattenRoutes(routes, prefix): the flatRoutes.set calls it makes, in the
\* order of Object.entries
RECURSIVE flattenRoutes(_, _)
flattenRoutes(routes, prefix) ==
  LET entry(i) ==
        LET key == routes.entries[i][1]
            value == routes.entries[i][2]
            path == IF prefix # "" THEN prefix \o "." \o key ELSE key
        IN IF isProcedure(value)
           THEN << <<path, value>> >>
           ELSE flattenRoutes(value, path)
      RECURSIVE from(_)
      from(i) ==
        IF i > Len(routes.entries) THEN <<>> ELSE entry(i) \o from(i + 1)
  IN from(1)

\* The Map those set calls leave: a later set replaces an earlier one made
\* with the same key
FlatMap(entries) ==
  [p \in {entries[i][1] : i \in 1..Len(entries)} |->
     entries[CHOOSE i \in 1..Len(entries) :
               /\ entries[i][1] = p
               /\ \A j \in (i + 1)..Len(entries) : entries[j][1] # p][2]]

RpcMount == <<"/", "_", "r", "p", "c", "/">>

\* url.pathname.replace(/^\/_rpc\//, '')
RpcPath(pathname) ==
  ToStr(IF Len(pathname) >= Len(RpcMount)
           /\ SubSeq(pathname, 1, Len(RpcMount)) = RpcMount
        THEN SubSeq(pathname, Len(RpcMount) + 1, Len(pathname))
        ELSE pathname)

\* Values that travel through a call are JavaScript strings; the record
\* says which function produced the string.
Val(kind, by) == [kind |-> kind, by |-> by]


\* A message is the list of the pieces of its template literal
Msg(text) == <<text>>

NoIssues == <<>>

\* errorResponse(status, code, message, issues): the envelope
\* {error: {message, code, issues}}; issues is absent (<<>>) or <<list>>
errorResponse(status, code, message, issues) ==
  [status |-> status,
   body |-> [error |-> <<[message |-> message, code |-> code, issues |-> issues]>>,
             result |-> <<>>]]

okResponse(output) ==
  [status |-> 200, body |-> [error |-> <<>>, result |-> <<encode(output)>>]]

docResponse(which) ==
  [status |-> 200, body |-> [error |-> <<>>, result |-> <<Val(which, 0)>>]]

\* What a middleware function does when it is invoked:
\*   next    - before; r = await next(); after; return r
\*   replace - before; await next(); after; return its own value
\*   short   - before; return its own value without calling next
\*   twice   - before; await next(); r = await next(); after; return r
\*   throw   - before; throw
MwBehaviours == {"next", "replace", "short", "twice", "throw"}

\* The values user code throws: an Error, an Error carrying code and
\* statusCode, an Error carrying only a code, an object that is not an Error
\* and carries a message and a code, and null
PlainError ==
  [kind |-> "Error", message |-> "boom", code |-> <<>>, statusCode |-> <<>>]

ThrownValues ==
  { PlainError,
    [kind |-> "Error", message |-> "denied", code |-> <<"FORBIDDEN">>,
     statusCode |-> <<403>>],
    [kind |-> "Error", message |-> "late", code |-> <<"TIMEOUT">>,
     statusCode |-> <<>>],
    [kind |-> "object", message |-> "raw", code |-> <<"RAW">>,
     statusCode |-> <<>>],
    [kind |-> "null", message |-> "", code |-> <<>>, statusCode |-> <<>>] }

Ev(ev, who, val) == [ev |-> ev, who |-> who, val |-> val]

NoVal == Val("none", 0)

\* invoked lists, in order, the calls handle() makes outside the chain:
\* "inputValidator", "contextFactory", "outputValidator", and "catch" for
\* an entry into its catch block; query and body remember the request,
\* validated the result of the input validator, verdict that of the output
\* validator, thrown the value caught.
IdleCall ==
  [st |-> "idle", method |-> "", path |-> "", query |-> "", body |-> "",
   proc |-> <<>>,
   input |-> <<>>, index |-> 0, stack |-> <<>>, ret |-> NoVal,
   trace |-> <<>>, behs |-> <<>>, invoked |-> <<>>, validated |-> <<>>,
   verdict |-> <<>>, thrown |-> <<>>,
   output |-> <<>>, response |-> <<>>, ctx |-> <<>>]

\* The calls of handle() the model follows. SpecRpc runs the first alone,
\* SpecConcurrent has both in flight.
CallIds == {1, 2}

\* const mw = middlewares[index++]: the function picked, variant that walks
\* the array from its end
PickMwFromEnd(middlewares, index) == middlewares[Len(middlewares) - index]

\* const mw = middlewares[index++]: the function picked
PickMw(middlewares, index) == middlewares[index + 1]

\* The request's input as handle() parses it: GET reads the input query
\* parameter, every other method reads the body.
\* query: "none" (no parameter), "empty" (?input=), "ok" (JSON), "bad" (not
\*        JSON), "undecodable" (the JSON text {"__t":"BigInt","v":"x"})
\* body:  "none" (no body), "ok", "bad", "undecodable" as for query, "form"
\*        (multipart)
RpcMethods == {"GET", "POST", "PUT"}
RpcQueries == {"none", "empty", "ok", "bad", "undecodable"}
RpcBodies == {"none", "ok", "bad", "undecodable", "form"}

\* The requests made: a GET request cannot carry a body
RpcRequestOk(method, query, body) ==
  /\ method = "GET" => body = "none"
  /\ method = "POST" => query \in {"none", "ok"}
  /\ method = "PUT" => query = "none"

\* Variant of ParseInput that prefers the input query parameter whenever the
\* request has one
ParseInputQueryFirst(method, query, body) ==
  LET read(text, token) ==
        CASE text = "ok" -> [ok |-> TRUE, raw |-> <<token>>]
          [] OTHER -> [ok |-> FALSE, raw |-> <<>>]
  IN
  IF method = "GET" \/ query = "ok"
  THEN IF query \in {"none", "empty"} THEN [ok |-> TRUE, raw |-> <<>>]
       ELSE read(query, Val("query", 0))
  ELSE IF body = "form" THEN [ok |-> TRUE, raw |-> <<Val("form", 0)>>]
       ELSE read(body, Val("body", 0))

\* Variant of ParseInput that hands a document on although decode threw
ParseInputUndecoded(method, query, body) ==
  LET read(text, token) ==
        CASE text \in {"ok", "undecodable"} -> [ok |-> TRUE, raw |-> <<token>>]
          [] OTHER -> [ok |-> FALSE, raw |-> <<>>]
  IN
  IF method = "GET"
  THEN IF query \in {"none", "empty"} THEN [ok |-> TRUE, raw |-> <<>>]
       ELSE read(query, Val("query", 0))
  ELSE IF body = "form" THEN [ok |-> TRUE, raw |-> <<Val("form", 0)>>]
       ELSE read(body, Val("body", 0))

\* `if (inputParam)` skips an absent and an empty parameter; JSON.parse /
\* request.json() throw for text that is not JSON (an empty body included),
\* decode throws for the undecodable document; both land in the catch
ParseInput(method, query, body) ==
  LET read(text, token) ==
        CASE text = "ok" -> [ok |-> TRUE, raw |-> <<token>>]
          [] text = "undecodable" ->
               IF decode(Tagged("BigInt", Str(<<"x">>))) = Thrown
               THEN [ok |-> FALSE, raw |-> <<>>]
               ELSE [ok |-> TRUE, raw |-> <<token>>]
          [] OTHER -> [ok |-> FALSE, raw |-> <<>>]
  IN
  IF method = "GET"
  THEN IF query \in {"none", "empty"} THEN [ok |-> TRUE, raw |-> <<>>]
       ELSE read(query, Val("query", 0))
  ELSE IF body = "form" THEN [ok |-> TRUE, raw |-> <<Val("form", 0)>>]
       ELSE read(body, Val("body", 0))

\* Variant of MethodCheck that is made after the input is parsed and
\* validated
MethodCheckLate(proc, method, parsed, valid) ==
  /\ proc.type = "mutation" /\ method # "POST"
  /\ parsed.ok
  /\ proc.inputSchema = <<>> \/ valid

\* proc.type === 'mutation' && request.method !== 'POST', before any parsing
MethodCheck(proc, method, parsed, valid) ==
  proc.type = "mutation" /\ method # "POST"

\* Variant of NotFound that sends unknown paths of POST requests on
NotFoundGetOnly(flat, rpcPath, method) ==
  rpcPath \notin DOMAIN flat /\ method = "GET"

\* !proc after this.flatRoutes.get(rpcPath)
NotFound(flat, rpcPath, method) == rpcPath \notin DOMAIN flat

\* Variant of ValidationIssues that drops the validator's issue list
ValidationIssuesDropped(result) == NoIssues

\* the issues argument of the VALIDATION_ERROR response
ValidationIssues(result) == <<result.issues>>

\* proc.inputSchema.validate(rawInput)
ValidateResult(valid, raw) ==
  IF valid THEN [success |-> TRUE, data |-> Val("data", 0), issues |-> <<>>]
  ELSE [success |-> FALSE, data |-> NoVal, issues |-> <<"issue">>]

\* Variant of HandleUntilContext that passes the parsed input on after the
\* validator accepted it
HandleUntilContextRawInput(flat, call, method, pathname, query, body, valid) ==
  LET rpcPath == RpcPath(pathname)
      c0 == [call EXCEPT !.method = method, !.path = rpcPath,
                         !.query = query, !.body = body]
      done(c, resp) == [c EXCEPT !.st = "done", !.response = <<resp>>]
  IN
  IF rpcPath = "openapi.json" THEN done(c0, docResponse("openapi"))
  ELSE IF rpcPath = "manifest.json" THEN done(c0, docResponse("manifest"))
  ELSE IF NotFound(flat, rpcPath, method)
  THEN done(c0, errorResponse(404, "NOT_FOUND",
                  <<"Procedure \"", rpcPath, "\" not found">>, NoIssues))
  ELSE IF rpcPath \notin DOMAIN flat
  THEN [c0 EXCEPT !.st = "rejected"]   \* proc is undefined: proc.type throws
  ELSE
    LET proc == flat[rpcPath]
        parsed == ParseInput(method, query, body)
        c1 == [c0 EXCEPT !.proc = <<proc>>]
    IN
    IF MethodCheck(proc, method, parsed, valid)
    THEN done(c1, errorResponse(405, "METHOD_NOT_ALLOWED",
                    Msg("Mutations require POST"), NoIssues))
    ELSE IF ~parsed.ok
    THEN done(c1, errorResponse(400, "PARSE_ERROR",
                    Msg(IF method = "GET" THEN "Invalid input parameter"
                        ELSE "Invalid JSON body"), NoIssues))
    ELSE IF proc.inputSchema # <<>>
    THEN
      LET result == ValidateResult(valid, parsed.raw)
          c2 == [c1 EXCEPT !.invoked = Append(@, "inputValidator"),
                           !.validated = << result >>]
      IN
      IF ~result.success
      THEN done(c2, errorResponse(400, "VALIDATION_ERROR",
                      Msg("Input validation failed"), ValidationIssues(result)))
      ELSE [c2 EXCEPT !.st = "ctx", !.input = parsed.raw]
    ELSE [c1 EXCEPT !.st = "ctx", !.input = parsed.raw]

\* handle(request) up to `await this.contextFactory(request)`; valid is the
\* verdict of proc.inputSchema.validate
HandleUntilContext(flat, call, method, pathname, query, body, valid) ==
  LET rpcPath == RpcPath(pathname)
      c0 == [call EXCEPT !.method = method, !.path = rpcPath,
                         !.query = query, !.body = body]
      done(c, resp) == [c EXCEPT !.st = "done", !.response = <<resp>>]
  IN
  IF rpcPath = "openapi.json" THEN done(c0, docResponse("openapi"))
  ELSE IF rpcPath = "manifest.json" THEN done(c0, docResponse("manifest"))
  ELSE IF NotFound(flat, rpcPath, method)
  THEN done(c0, errorResponse(404, "NOT_FOUND",
                  <<"Procedure \"", rpcPath, "\" not found">>, NoIssues))
  ELSE IF rpcPath \notin DOMAIN flat
  THEN [c0 EXCEPT !.st = "rejected"]   \* proc is undefined: proc.type throws
  ELSE
    LET proc == flat[rpcPath]
        parsed == ParseInput(method, query, body)
        c1 == [c0 EXCEPT !.proc = <<proc>>]
    IN
    IF MethodCheck(proc, method, parsed, valid)
    THEN done(c1, errorResponse(405, "METHOD_NOT_ALLOWED",
                    Msg("Mutations require POST"), NoIssues))
    ELSE IF ~parsed.ok
    THEN done(c1, errorResponse(400, "PARSE_ERROR",
                    Msg(IF method = "GET" THEN "Invalid input parameter"
                        ELSE "Invalid JSON body"), NoIssues))
    ELSE IF proc.inputSchema # <<>>
    THEN
      LET result == ValidateResult(valid, parsed.raw)
          c2 == [c1 EXCEPT !.invoked = Append(@, "inputValidator"),
                           !.validated = << result >>]
      IN
      IF ~result.success
      THEN done(c2, errorResponse(400, "VALIDATION_ERROR",
                      Msg("Input validation failed"), ValidationIssues(result)))
      ELSE [c2 EXCEPT !.st = "ctx", !.input = <<result.data>>]
    ELSE [c1 EXCEPT !.st = "ctx", !.input = parsed.raw]

\* Variant of Classify that always answers INTERNAL_ERROR / 500
ClassifyDefault(error) ==
  [message |-> Msg(IF error.kind = "Error" THEN error.message ELSE "Internal error"),
   code |-> "INTERNAL_ERROR",
   status |-> 500]

\* the catch block of handle(): message, code and status of the response
Classify(error) ==
  [message |-> Msg(IF error.kind = "Error" THEN error.message ELSE "Internal error"),
   code |-> IF error.code # <<>> THEN error.code[1] ELSE "INTERNAL_ERROR",
   status |-> IF error.statusCode # <<>> THEN error.statusCode[1] ELSE 500]

\* runProcedure or output validation threw: the catch block of handle().
\* Reading .code of null throws inside the catch block, and handle() rejects.
CallFailed(call, error) ==
  LET c1 == [call EXCEPT !.stack = <<>>, !.thrown = <<error>>,
                         !.invoked = Append(@, "catch")]
      e == Classify(error)
  IN
  IF error.kind = "null" THEN [c1 EXCEPT !.st = "rejected"]
  ELSE [c1 EXCEPT !.st = "done",
                  !.response = <<errorResponse(e.status, e.code, e.message, NoIssues)>>]

\* next() when index < middlewares.length: the middleware is invoked
InvokeMiddleware(call, beh, error) ==
  LET mw == PickMw(call.proc[1].middlewares, call.index)
      c1 == [call EXCEPT !.index = @ + 1,
                         !.trace = Append(@, Ev("before", mw, NoVal)),
                         !.behs = Append(@, beh)]
  IN
  CASE beh = "short" -> [c1 EXCEPT !.st = "return", !.ret = Val("mw", mw)]
    [] beh = "throw" -> CallFailed(c1, error)
    [] OTHER -> [c1 EXCEPT !.stack =
                   Append(@, [mw |-> mw, beh |-> beh, calls |-> 1])]

\* next() when every middleware has been taken: proc.handler({input, ctx})
InvokeHandler(call, ok, error) ==
  LET h == call.proc[1].handler
      c1 == [call EXCEPT !.trace = Append(@, Ev("handler", h, NoVal))]
  IN
  IF ok THEN [c1 EXCEPT !.st = "return", !.ret = Val("handler", h)]
  ELSE CallFailed(c1, error)

\* the innermost pending `await next()` resolves
ResumeMiddleware(call) ==
  LET f == call.stack[Len(call.stack)]
      popped == SubSeq(call.stack, 1, Len(call.stack) - 1)
      after == [call EXCEPT !.trace = Append(@, Ev("after", f.mw, call.ret)),
                            !.stack = popped]
  IN
  CASE f.beh = "replace" -> [after EXCEPT !.ret = Val("mw", f.mw)]
    [] f.beh = "twice" /\ f.calls = 1 ->
         [call EXCEPT !.st = "enter",
                      !.stack = Append(popped, [f EXCEPT !.calls = 2])]
    [] OTHER -> after

\* The verdicts of proc.outputSchema.validate(output)
OutputVerdicts == {"accept", "reject", "throw"}

\* Variant of OutputRejected that returns the output all the same
OutputRejectedIgnored(verdict) == FALSE

\* !result.success
OutputRejected(verdict) == verdict = "reject"

\* runProcedure resolved: output validation and the response
AfterProcedure(call, verdict) ==
  LET proc == call.proc[1]
      c1 == [call EXCEPT !.output = <<call.ret>>]
      c2 == [c1 EXCEPT !.invoked = Append(@, "outputValidator"),
                       !.verdict = << verdict >>]
  IN
  IF proc.outputSchema = <<>>
  THEN [c1 EXCEPT !.st = "done", !.response = <<okResponse(call.ret)>>]
  ELSE IF verdict = "throw" THEN CallFailed(c2, PlainError)
  ELSE IF OutputRejected(verdict)
  THEN [c2 EXCEPT !.st = "done",
                  !.response = <<errorResponse(500, "OUTPUT_VALIDATION_ERROR",
                                   Msg("Output validation failed"), NoIssues)>>]
  ELSE [c2 EXCEPT !.st = "done", !.response = <<okResponse(call.ret)>>]

\* Inputs of the RPC scenarios
RpcKeys == <<"a", "b", "c">>
RpcPathnames ==
  { RpcMount \o <<"a">>,
    RpcMount \o <<"u", ".", "a">>,
    RpcMount \o <<"x">>,
    RpcMount \o <<"m", "a", "n", "i", "f", "e", "s", "t", ".", "j", "s", "o", "n">>,
    <<"/", "a">> }

\* The router definition in which the definitions numbered in `nested` sit
\* under the key u, written after the others, which are at the top
RouterTree(ds, nested) ==
  LET idxs == [i \in 1..Len(ds) |-> i]
      top == SelectSeq(idxs, LAMBDA i : i \notin nested)
      sub == SelectSeq(idxs, LAMBDA i : i \in nested)
      props(s) == [k \in 1..Len(s) |-> <<RpcKeys[s[k]], ds[s[k]]>>]
  IN Obj(props(top) \o (IF nested # {} THEN << <<"u", Obj(props(sub))>> >>
                        ELSE <<>>))

\* Router definitions of one or two properties over the keys a, u, u.a and
\* the empty key, nested up to three levels
RouterTrees ==
  LET keys == {"a", "u", "u.a", ""}
      query == [type |-> "query", handler |-> 1]
      mutation == [type |-> "mutation", handler |-> 2]
      inner == {Obj(<< <<k, query>> >>) : k \in keys}
      deep == {Obj(<< <<"u", n>> >>) : n \in inner}
      values == {query, mutation} \cup inner \cup deep
  IN {Obj(<< <<k, v>> >>) : k \in keys, v \in values}
     \cup {Obj(<< <<ks[1], v1>>, <<ks[2], v2>> >>) :
             ks \in {p \in keys \X keys : p[1] # p[2]},
             v1 \in {query} \cup inner, v2 \in {mutation} \cup inner}

-----------------------------------------------------------------------------
(* State machine *)

NoMatchYet == [method |-> "", path |-> <<>>, result |-> <<>>]

\* no value has been passed to the codec
IdleWire ==
  [st |-> "idle", value |-> <<>>, encoded |-> <<>>, document |-> <<>>,
   decoded |-> <<>>]

Init ==
  /\ nodes = (RootKey :> createNode(<<>>))
  /\ routeLog = <<>>
  /\ lastMatch = NoMatchYet
  /\ scopes = <<NewContext(<<>>, 0, <<>>)>>
  /\ adds = 0
  /\ req = IdleReq
  /\ builders = <<ProcedureBuilder(<<>>, <<>>)>>
  /\ defs = <<>>
  /\ flatRoutes = <<>>
  /\ routerDefinition = <<>>
  /\ calls = [c \in CallIds |-> IdleCall]
  /\ wire = IdleWire
  /\ clientCall = [st |-> "idle", kind |-> "", input |-> <<>>,
                   outcome |-> <<>>, received |-> <<>>, envelope |-> <<>>,
                   value |-> <<>>, error |-> <<>>]

\* Routes, hooks and plugins are registered at startup; the router and the
\* scope tree are read-only once requests are served.
Setup == req.st = "idle" /\ lastMatch = NoMatchYet


\* router.addRoute(method, url, handler) with a fresh handler function;
\* the handler is identified by its position in routeLog.
AddRoute(method, url) ==
  /\ Setup
  /\ Len(routeLog) < MaxRoutes
  /\ LET h == Len(routeLog) + 1 IN
     /\ nodes' = RouterAddRoute(nodes, method, url, h, NoHooks)
     /\ routeLog' = Append(routeLog,
          [method |-> method, url |-> url, scope |-> 0,
           opts |-> {}, own |-> [p \in HookNames |-> 0]])
  /\ UNCHANGED <<lastMatch, scopes, adds, req>>
  /\ UNCHANGED <<rpcVars, wire, clientCall>>

\* router.match(method, pathname)
Match(method, path) ==
  /\ lastMatch = NoMatchYet
  /\ lastMatch' = [method |-> method, path |-> path,
                   result |-> RouterMatch(nodes, method, path)]
  /\ UNCHANGED <<nodes, routeLog, scopes, adds, req>>
  /\ UNCHANGED <<rpcVars, wire, clientCall>>

\* ctx.register(plugin, {prefix}): the plugin then registers on scope c
Register(s, prefix) ==
  /\ Setup
  /\ Len(scopes) < MaxScopes
  /\ scopes' = createChild(scopes, s, prefix)
  /\ UNCHANGED <<nodes, routeLog, lastMatch, adds, req>>
  /\ UNCHANGED <<rpcVars, wire, clientCall>>

\* Variant of AddHook for a child whose hook arrays are the parent's arrays
\* (no copy in the constructor): the push is seen by the parent too
AddHookShared(s, name) ==
  /\ Setup
  /\ \/ adds < MaxAdds
     \/ name = "onError" /\ adds < MaxErrorHandlers
     \/ /\ adds < MaxSamePhase
        /\ \E i \in 1..Len(scopes) : scopes[i].hooks[name] # <<>>
  /\ LET id == HookId(s, name, OwnCount(scopes[s].hooks[name], s) + 1)
         par == scopes[s].parent
     IN
     scopes' = [i \in 1..Len(scopes) |->
                  IF i = s \/ i = par
                  THEN [scopes[i] EXCEPT !.hooks[name] = Append(@, id)]
                  ELSE scopes[i]]
  /\ adds' = adds + 1
  /\ UNCHANGED <<nodes, routeLog, lastMatch, req>>
  /\ UNCHANGED <<rpcVars, wire, clientCall>>

\* ctx.addHook(name, handler) with a fresh hook function
AddHook(s, name) ==
  /\ Setup
  /\ \/ adds < MaxAdds
     \/ name = "onError" /\ adds < MaxErrorHandlers
     \/ /\ adds < MaxSamePhase
        /\ \E i \in 1..Len(scopes) : scopes[i].hooks[name] # <<>>
  /\ LET id == HookId(s, name, OwnCount(scopes[s].hooks[name], s) + 1) IN
     scopes' = [scopes EXCEPT ![s].hooks[name] = Append(@, id)]
  /\ adds' = adds + 1
  /\ UNCHANGED <<nodes, routeLog, lastMatch, req>>
  /\ UNCHANGED <<rpcVars, wire, clientCall>>

\* ctx.decorate(name, value); the value passed names the calling scope
Decorate(s, name) ==
  /\ Setup
  /\ adds < MaxAdds
  /\ scopes' = [scopes EXCEPT ![s].decorations = MapSet(@, name, s)]
  /\ adds' = adds + 1
  /\ UNCHANGED <<nodes, routeLog, lastMatch, req>>
  /\ UNCHANGED <<rpcVars, wire, clientCall>>

\* ctx.decorateRequest(name, value)
DecorateRequest(s, name) ==
  /\ Setup
  /\ adds < MaxAdds
  /\ scopes' = [scopes EXCEPT ![s].requestDecorations = MapSet(@, name, s)]
  /\ adds' = adds + 1
  /\ UNCHANGED <<nodes, routeLog, lastMatch, req>>
  /\ UNCHANGED <<rpcVars, wire, clientCall>>

\* ctx.route({method, url, handler, ...hooks}) / ctx.get(url, handler) / ...
\* opts is the set of phases for which RouteOptions carries a hook.
AppRoute(s, method, url, opts) ==
  /\ Setup
  /\ Len(routeLog) < MaxAppRoutes
  /\ LET rid == Len(routeLog) + 1
         fullUrl == scopes[s].prefix \o url
     IN
     /\ nodes' = RouterAddRoute(nodes, method, fullUrl, rid,
                                FrozenHooks(scopes[s], opts, rid))
     /\ routeLog' = Append(routeLog,
          [method |-> method, url |-> fullUrl, scope |-> s, opts |-> opts,
           own |-> [p \in HookNames |-> OwnCount(scopes[s].hooks[p], s)]])
  /\ UNCHANGED <<lastMatch, scopes, adds, req>>
  /\ UNCHANGED <<rpcVars, wire, clientCall>>

\* app.handle(request) up to the first await
Handle(method, path) ==
  /\ req.st = "idle"
  /\ lastMatch = NoMatchYet
  /\ req' = StartRequest(scopes, nodes, method, path)
  /\ UNCHANGED <<nodes, routeLog, lastMatch, scopes, adds>>
  /\ UNCHANGED <<rpcVars, wire, clientCall>>

InHookPhase ==
  /\ req.st = "run"
  /\ PhaseSeq[req.pi] \notin {"body", "handler"}

\* the awaited hook returns
HookStep(b, error) ==
  /\ InHookPhase
  /\ req' = AfterHook(scopes, req,
                      PhaseHooks(scopes, req, PhaseSeq[req.pi])[req.hi], b,
                      error)
  /\ UNCHANGED <<nodes, routeLog, lastMatch, scopes, adds>>
  /\ UNCHANGED <<rpcVars, wire, clientCall>>

BodyStep(out) ==
  /\ req.st = "run"
  /\ PhaseSeq[req.pi] = "body"
  /\ out \in ParseOutcomes(req.method)
  /\ req' = AfterBody(scopes, req, out)
  /\ UNCHANGED <<nodes, routeLog, lastMatch, scopes, adds>>
  /\ UNCHANGED <<rpcVars, wire, clientCall>>

HandlerStep(b, error) ==
  /\ req.st = "run"
  /\ PhaseSeq[req.pi] = "handler"
  /\ req' = AfterHandler(scopes, req, b, error)
  /\ UNCHANGED <<nodes, routeLog, lastMatch, scopes, adds>>
  /\ UNCHANGED <<rpcVars, wire, clientCall>>

ErrorStep(b) ==
  /\ req.st = "error"
  /\ req' = AfterErrorHandler(scopes, req, ErrorHandlers(scopes, req)[req.hi], b)
  /\ UNCHANGED <<nodes, routeLog, lastMatch, scopes, adds>>
  /\ UNCHANGED <<rpcVars, wire, clientCall>>

ScopeIds == 1..Len(scopes)

Next ==
  \/ \E s \in ScopeIds, p \in { <<"/", "a">> } : Register(s, p)
  \/ \E s \in ScopeIds, n \in HookNames : AddHook(s, n)
  \/ \E s \in ScopeIds, n \in DecorNames : Decorate(s, n)
  \/ \E s \in ScopeIds, n \in DecorNames : DecorateRequest(s, n)
  \/ \E s \in ScopeIds, m \in Methods \cup {"HEAD"}, u \in { <<"/", "x">> },
          o \in RouteOptSets :
       AppRoute(s, m, u, o)
  \/ \E m \in Methods \cup {"HEAD"}, p \in AppPaths : Handle(m, p)
  \/ \E b \in Behaviours, e \in AppErrors : HookStep(b, e)
  \/ \E o \in BodyOutcomes \cup {"skipped"} : BodyStep(o)
  \/ \E b \in Behaviours, e \in AppErrors : HandlerStep(b, e)
  \/ \E b \in Behaviours : ErrorStep(b)

Spec == Init /\ [][Next]_vars

NextRouter ==
  \/ \E m \in Methods, u \in Patterns : AddRoute(m, u)
  \/ \E m \in Methods, p \in ReqPaths : Match(m, p)

SpecRouter == Init /\ [][NextRouter]_vars

-----------------------------------------------------------------------------
(* RPC actions *)

\* Procedures are defined and the RPCHandler is constructed at startup
RpcSetup == flatRoutes = <<>>

\* createProcedure(...middlewares)
CreateProcedure(args) ==
  /\ RpcSetup
  /\ Len(builders) < MaxBuilders
  /\ builders' = Append(builders,
                        ProcedureBuilder(args, <<Op("create", args)>>))
  /\ UNCHANGED <<defs, flatRoutes, routerDefinition, calls>>
  /\ UNCHANGED <<appVars, wire, clientCall>>

\* Variant of Use in which use() pushes the middleware on the receiver's own
\* array before copying it
UseInPlace(b, middleware) ==
  /\ RpcSetup
  /\ Len(builders) < MaxBuilders
  /\ builders' = Append([builders EXCEPT ![b].middlewares = Append(@, middleware)],
                        BuilderUse(builders[b], middleware))
  /\ UNCHANGED <<defs, flatRoutes, routerDefinition, calls>>
  /\ UNCHANGED <<appVars, wire, clientCall>>

\* builder.use(middleware)
Use(b, middleware) ==
  /\ RpcSetup
  /\ Len(builders) < MaxBuilders
  /\ builders' = Append(builders, BuilderUse(builders[b], middleware))
  /\ UNCHANGED <<defs, flatRoutes, routerDefinition, calls>>
  /\ UNCHANGED <<appVars, wire, clientCall>>

\* builder.input(schema)
Input(b, schema) ==
  /\ RpcSetup
  /\ Len(builders) < MaxBuilders
  /\ builders' = Append(builders, BuilderInput(builders[b], schema))
  /\ UNCHANGED <<defs, flatRoutes, routerDefinition, calls>>
  /\ UNCHANGED <<appVars, wire, clientCall>>

\* builder.output(schema)
Output(b, schema) ==
  /\ RpcSetup
  /\ Len(builders) < MaxBuilders
  /\ builders' = Append(builders, BuilderOutput(builders[b], schema))
  /\ UNCHANGED <<defs, flatRoutes, routerDefinition, calls>>
  /\ UNCHANGED <<appVars, wire, clientCall>>

\* builder.query(handler)
Query(b) ==
  /\ RpcSetup
  /\ Len(defs) < MaxDefs
  /\ defs' = Append(defs, Build(builders[b], "query", Len(defs) + 1))
  /\ UNCHANGED <<builders, flatRoutes, routerDefinition, calls>>
  /\ UNCHANGED <<appVars, wire, clientCall>>

\* builder.mutation(handler)
Mutation(b) ==
  /\ RpcSetup
  /\ Len(defs) < MaxDefs
  /\ defs' = Append(defs, Build(builders[b], "mutation", Len(defs) + 1))
  /\ UNCHANGED <<builders, flatRoutes, routerDefinition, calls>>
  /\ UNCHANGED <<appVars, wire, clientCall>>

\* new RPCHandler(routes)
NewHandler(nested) ==
  /\ RpcSetup
  /\ Len(defs) > 0
  /\ routerDefinition' = <<RouterTree(defs, nested)>>
  /\ flatRoutes' = <<FlatMap(flattenRoutes(RouterTree(defs, nested), ""))>>
  /\ UNCHANGED <<builders, defs, calls>>
  /\ UNCHANGED <<appVars, wire, clientCall>>

\* handler.handle(request) up to the context factory
RpcHandle(c, method, pathname, query, body, valid) ==
  /\ flatRoutes # <<>>
  /\ calls[c].st = "idle"
  /\ RpcRequestOk(method, query, body)
  /\ calls' = [calls EXCEPT ![c] =
       HandleUntilContext(flatRoutes[1], @, method, pathname, query, body, valid)]
  /\ UNCHANGED <<builders, defs, flatRoutes, routerDefinition>>
  /\ UNCHANGED <<appVars, wire, clientCall>>

\* Variant of ContextStep whose factory hands every call the same object
ContextStepShared(c, ok) ==
  /\ calls[c].st = "ctx"
  /\ calls' = [calls EXCEPT ![c].st = IF ok THEN "enter" ELSE "rejected",
                             ![c].invoked = Append(@, "contextFactory"),
                             ![c].ctx = IF ok THEN <<1>> ELSE <<>>]
  /\ UNCHANGED <<builders, defs, flatRoutes, routerDefinition>>
  /\ UNCHANGED <<appVars, wire, clientCall>>

\* the context factory settles; when it throws, handle() rejects. The
\* default factory, (request) => ({ request }), makes a new object on every
\* call: ctx is the identity of the object, one not handed out before.
ContextStep(c, ok) ==
  /\ calls[c].st = "ctx"
  /\ calls' = [calls EXCEPT ![c].st = IF ok THEN "enter" ELSE "rejected",
                             ![c].invoked = Append(@, "contextFactory"),
                             ![c].ctx =
                               IF ok
                               THEN <<1 + Cardinality({d \in CallIds :
                                                        calls[d].ctx # <<>>})>>
                               ELSE <<>>]
  /\ UNCHANGED <<builders, defs, flatRoutes, routerDefinition>>
  /\ UNCHANGED <<appVars, wire, clientCall>>

MiddlewareStep(c, beh, error) ==
  /\ calls[c].st = "enter"
  /\ calls[c].index < Len(calls[c].proc[1].middlewares)
  /\ beh # "throw" => error = PlainError
  /\ calls' = [calls EXCEPT ![c] = InvokeMiddleware(@, beh, error)]
  /\ UNCHANGED <<builders, defs, flatRoutes, routerDefinition>>
  /\ UNCHANGED <<appVars, wire, clientCall>>

ProcedureStep(c, ok, error) ==
  /\ calls[c].st = "enter"
  /\ calls[c].index >= Len(calls[c].proc[1].middlewares)
  /\ ok => error = PlainError
  /\ calls' = [calls EXCEPT ![c] = InvokeHandler(@, ok, error)]
  /\ UNCHANGED <<builders, defs, flatRoutes, routerDefinition>>
  /\ UNCHANGED <<appVars, wire, clientCall>>

ResumeStep(c) ==
  /\ calls[c].st = "return"
  /\ calls[c].stack # <<>>
  /\ calls' = [calls EXCEPT ![c] = ResumeMiddleware(@)]
  /\ UNCHANGED <<builders, defs, flatRoutes, routerDefinition>>
  /\ UNCHANGED <<appVars, wire, clientCall>>

OutputStep(c, verdict) ==
  /\ calls[c].st = "return"
  /\ calls[c].stack = <<>>
  /\ calls[c].proc[1].outputSchema = <<>> => verdict = "accept"
  /\ calls' = [calls EXCEPT ![c] = AfterProcedure(@, verdict)]
  /\ UNCHANGED <<builders, defs, flatRoutes, routerDefinition>>
  /\ UNCHANGED <<appVars, wire, clientCall>>

BuilderIds == 1..Len(builders)

NextRpc ==
  \/ \E a \in CreateArgs : CreateProcedure(a)
  \/ \E b \in BuilderIds, m \in MwIds : Use(b, m)
  \/ \E b \in BuilderIds, s \in SchemaInputs : Input(b, s)
  \/ \E b \in BuilderIds, s \in SchemaInputs : Output(b, s)
  \/ \E b \in BuilderIds : Query(b)
  \/ \E b \in BuilderIds : Mutation(b)
  \/ \E n \in SUBSET (1..Len(defs)) : NewHandler(n)
  \/ \E c \in {1}, m \in RpcMethods, p \in RpcPathnames,
        q \in RpcQueries, b \in RpcBodies, v \in BOOLEAN :
       RpcHandle(c, m, p, q, b, v)
  \/ \E c \in {1}, ok \in BOOLEAN : ContextStep(c, ok)
  \/ \E c \in {1}, b \in MwBehaviours, e \in ThrownValues :
       MiddlewareStep(c, b, e)
  \/ \E c \in {1}, ok \in BOOLEAN, e \in ThrownValues :
       ProcedureStep(c, ok, e)
  \/ \E c \in {1} : ResumeStep(c)
  \/ \E c \in {1}, v \in OutputVerdicts : OutputStep(c, v)

SpecRpc == Init /\ [][NextRpc]_vars

\* Two calls of handle() in flight on one RPCHandler. handle() and
\* runProcedure are async: between two of their steps (the context factory,
\* each middleware, the handler, each return) the steps of the other call
\* may run. The handler serves one query procedure with the middlewares
\* 1 and 2.
NextConcurrent ==
  \/ CreateProcedure(<<1, 2>>)
  \/ \E b \in BuilderIds : Query(b)
  \/ NewHandler({})
  \/ \E c \in CallIds :
       RpcHandle(c, "GET", RpcMount \o <<"a">>, "none", "none", TRUE)
  \/ \E c \in CallIds, ok \in BOOLEAN : ContextStep(c, ok)
  \/ \E c \in CallIds, b \in MwBehaviours : MiddlewareStep(c, b, PlainError)
  \/ \E c \in CallIds, ok \in BOOLEAN : ProcedureStep(c, ok, PlainError)
  \/ \E c \in CallIds : ResumeStep(c)
  \/ \E c \in CallIds : OutputStep(c, "accept")

SpecConcurrent == Init /\ [][NextConcurrent]_vars

-----------------------------------------------------------------------------
(* Flattening of router definitions *)

\* new RPCHandler(routes) for a router definition written by hand
NewHandlerOf(routes) ==
  /\ flatRoutes = <<>>
  /\ routerDefinition' = <<routes>>
  /\ flatRoutes' = <<FlatMap(flattenRoutes(routes, ""))>>
  /\ UNCHANGED <<builders, defs, calls>>
  /\ UNCHANGED <<appVars, wire, clientCall>>

NextFlatten == \E routes \in RouterTrees : NewHandlerOf(routes)

SpecFlatten == Init /\ [][NextFlatten]_vars

-----------------------------------------------------------------------------
(* Wire codec actions *)

\* encode(value)
WireEncode(value) ==
  /\ wire.st = "idle"
  /\ wire' = [wire EXCEPT !.st = "encoded", !.value = <<value>>,
                          !.encoded = <<encode(value)>>]
  /\ UNCHANGED <<appVars, rpcVars, clientCall>>

\* decode(encode(value)), when encode returned
WireDecode ==
  /\ wire.st = "encoded"
  /\ wire.encoded[1] # Thrown
  /\ wire' = [wire EXCEPT !.st = "decoded",
                          !.decoded = <<decode(wire.encoded[1])>>]
  /\ UNCHANGED <<appVars, rpcVars, clientCall>>

\* decode(document) for a document that arrived
WireReceive(document) ==
  /\ wire.st = "idle"
  /\ wire' = [wire EXCEPT !.st = "received", !.document = <<document>>,
                          !.decoded = <<decode(document)>>]
  /\ UNCHANGED <<appVars, rpcVars, clientCall>>

NextWire ==
  \/ \E value \in WireValues : WireEncode(value)
  \/ WireDecode
  \/ \E document \in WireDocuments : WireReceive(document)

SpecWire == Init /\ [][NextWire]_vars

-----------------------------------------------------------------------------
(* RPC client (createRPCClient) calling RPCHandler.handle *)

\* handle(request) for the path of a procedure of the type the method suits,
\* without input validator, output validator or middleware. inputParam and
\* body are absent (<<>>) or <<the JSON text>>; outcome is what the
\* procedure's handler does: it returns a value or throws an Error.
\* received is the input the handler was called with, data the parsed body
\* of the response.
handle(method, inputParam, body, outcome) ==
  LET rawInput ==
        IF method = "GET"
        THEN IF inputParam = <<>> THEN [t |-> "undefined"]
             ELSE decode(inputParam[1].json[1])
        ELSE IF body = <<>> THEN Thrown   \* request.json() rejects
             ELSE decode(body[1].json[1])
      caught == Classify(outcome.error)
  IN
  IF rawInput = Thrown
  THEN [received |-> <<>>,
        data |-> errorResponse(400, "PARSE_ERROR",
                   Msg(IF method = "GET" THEN "Invalid input parameter"
                       ELSE "Invalid JSON body"), NoIssues).body]
  ELSE IF ~outcome.ok
  THEN [received |-> <<rawInput>>,
        data |-> errorResponse(caught.status, caught.code, caught.message,
                               NoIssues).body]
  ELSE IF encode(outcome.value) = Thrown   \* RangeError, inside the try
  THEN [received |-> <<rawInput>>,
        data |-> errorResponse(500, "INTERNAL_ERROR",
                               Msg("Invalid time value"), NoIssues).body]
  ELSE [received |-> <<rawInput>>,
        data |-> [error |-> <<>>,
                  result |-> <<JSONstringify(encode(outcome.value))>>]]

\* client.<path>.query(input): the input travels as the query parameter
\* `input` (set and get of URLSearchParams give the text back); a call
\* without input sends no parameter
query(input, outcome) ==
  /\ clientCall.st = "idle"
  /\ LET call == [clientCall EXCEPT !.kind = "query", !.input = <<input>>,
                                    !.outcome = <<outcome>>]
         sent == input = [t |-> "undefined"] \/ encode(input) # Thrown
         inputParam == IF input = [t |-> "undefined"] THEN <<>>
                       ELSE <<JsonText(encode(input))>>
         res == handle("GET", inputParam, <<>>, outcome)
         value == decode(res.data.result[1])
     IN
     clientCall' =
       IF ~sent   \* encode threw before fetch was called
       THEN [call EXCEPT !.st = "rejected", !.error = <<[name |-> "RangeError"]>>]
       ELSE IF res.data.error # <<>>
       THEN [call EXCEPT !.st = "rejected", !.received = res.received,
                         !.envelope = res.data.error,
                         !.error = <<[name |-> "RPCError",
                                      message |-> res.data.error[1].message,
                                      code |-> res.data.error[1].code,
                                      issues |-> res.data.error[1].issues]>>]
       ELSE IF value = Thrown
       THEN [call EXCEPT !.st = "rejected", !.received = res.received,
                         !.error = <<[name |-> "Error"]>>]
       ELSE [call EXCEPT !.st = "resolved", !.received = res.received,
                         !.value = <<value>>]
  /\ UNCHANGED <<appVars, rpcVars, wire>>

\* client.<path>.mutate(input): POST with the body JSON.stringify(encode(input))
mutate(input, outcome) ==
  /\ clientCall.st = "idle"
  /\ LET call == [clientCall EXCEPT !.kind = "mutate", !.input = <<input>>,
                                    !.outcome = <<outcome>>]
         sent == encode(input) # Thrown
         res == handle("POST", <<>>, <<JsonText(encode(input))>>, outcome)
         value == decode(res.data.result[1])
     IN
     clientCall' =
       IF ~sent
       THEN [call EXCEPT !.st = "rejected", !.error = <<[name |-> "RangeError"]>>]
       ELSE IF res.data.error # <<>>
       THEN [call EXCEPT !.st = "rejected", !.received = res.received,
                         !.envelope = res.data.error,
                         !.error = <<[name |-> "RPCError",
                                      message |-> res.data.error[1].message,
                                      code |-> res.data.error[1].code,
                                      issues |-> res.data.error[1].issues]>>]
       ELSE IF value = Thrown
       THEN [call EXCEPT !.st = "rejected", !.received = res.received,
                         !.error = <<[name |-> "Error"]>>]
       ELSE [call EXCEPT !.st = "resolved", !.received = res.received,
                         !.value = <<value>>]
  /\ UNCHANGED <<appVars, rpcVars, wire>>

\* The inputs are the values of the wire scenarios; the handler returns one
\* of a few values or throws one of two errors
NextClient ==
  \E input \in WireValues,
     outcome \in
       {[ok |-> TRUE, value |-> v, error |-> PlainError] :
          v \in { [t |-> "null"], [t |-> "undefined"], Str(<<"a">>),
                  [t |-> "Date", time |-> <<1>>],
                  [t |-> "Set", items |-> <<[t |-> "bigint", n |-> 7]>>] }}
       \cup {[ok |-> FALSE, value |-> [t |-> "undefined"], error |-> e] :
               e \in {x \in ThrownValues : x.kind = "Error"}} :
    \/ query(input, outcome)
    \/ mutate(input, outcome)

SpecClient == Init /\ [][NextClient]_vars

-----------------------------------------------------------------------------
(* Vocabulary of the properties *)

\* The position in the tree a pattern names: its edges, parameter and
\* catch-all names left out.
RECURSIVE EdgesOf(_, _)
EdgesOf(segments, i) ==
  IF i > Len(segments) THEN <<>>
  ELSE IF StartsWith(segments[i], ":") THEN <<ParamEdge>> \o EdgesOf(segments, i + 1)
  ELSE IF StartsWith(segments[i], "*") THEN <<WildEdge>>
  ELSE <<StaticEdge(segments[i])>> \o EdgesOf(segments, i + 1)

PatternKey(url) == EdgesOf(splitPath(url), 1)

\* The registration that a (method, node) currently answers to; 0 if none
CurrentReg(method, key) ==
  LET S == {i \in 1..Len(routeLog) :
              routeLog[i].method = method /\ PatternKey(routeLog[i].url) = key}
  IN IF S = {} THEN 0 ELSE CHOOSE i \in S : \A j \in S : j <= i

IsCurrent(i) == CurrentReg(routeLog[i].method, PatternKey(routeLog[i].url)) = i

Front(seq) == SubSeq(seq, 1, Len(seq) - 1)
Last(seq) == seq[Len(seq)]

AllStatic(key) == \A i \in 1..Len(key) : key[i][1] = "s"

\* the literal path segments of an all-static key
Literals(key) == [i \in 1..Len(key) |-> key[i][2]]

\* The bindings a pattern declares for a concrete path it matches
RECURSIVE DeclaredParams(_, _, _)
DeclaredParams(pat, segs, i) ==
  IF i > Len(pat) THEN <<>>
  ELSE IF StartsWith(pat[i], "*") THEN
    (IF Slice1(pat[i]) # <<>> THEN Slice1(pat[i]) ELSE WildDefault)
      :> Join(SubSeq(segs, i, Len(segs)), Slash)
  ELSE IF StartsWith(pat[i], ":") THEN
    (Slice1(pat[i]) :> segs[i]) @@ DeclaredParams(pat, segs, i + 1)
  ELSE DeclaredParams(pat, segs, i + 1)

Matched == lastMatch.method # "" /\ lastMatch.result # <<>>

MatchSegs == splitPath(lastMatch.path)

-----------------------------------------------------------------------------
(* Router properties *)

\* C7 (as claimed): with a literal route and a parameter route registered
\* for the same method under the same parent node, a path ending in the
\* literal gets the literal route's handler, and a path ending in a segment
\* that is no literal child gets the parameter route's handler with the
\* segment bound to that route's parameter name.
C7_MatcherPrecedence_Claim ==
  lastMatch.method # "" =>
    \A i, j \in 1..Len(routeLog) :
      LET ki == PatternKey(routeLog[i].url)
          kj == PatternKey(routeLog[j].url)
      IN
      ( /\ IsCurrent(i) /\ IsCurrent(j)
        /\ routeLog[i].method = lastMatch.method
        /\ routeLog[j].method = lastMatch.method
        /\ Len(ki) >= 1 /\ Len(kj) = Len(ki)
        /\ Front(ki) = Front(kj)
        /\ AllStatic(ki)
        /\ Last(kj) = ParamEdge
        /\ Len(MatchSegs) = Len(ki)
        /\ Front(MatchSegs) = Literals(Front(ki)) )
      =>
        /\ Last(MatchSegs) = Last(ki)[2] =>
             /\ lastMatch.result # <<>>
             /\ lastMatch.result[1].handler = i
        /\ ~HasNode(nodes, Append(Front(ki), StaticEdge(Last(MatchSegs)))) =>
             /\ lastMatch.result # <<>>
             /\ lastMatch.result[1].handler = j
             /\ lastMatch.result[1].params =
                  (Slice1(Last(splitPath(routeLog[j].url))) :> Last(MatchSegs))

\* C8 (as claimed): for a route registered as <prefix>/*name, a path with one
\* or more segments after the prefix gets that route, with name bound to
\* the remaining segments joined by "/".
C8_CatchAllCapture_Claim ==
  lastMatch.method # "" =>
    \A i \in 1..Len(routeLog) :
      LET ki == PatternKey(routeLog[i].url)
          pat == splitPath(routeLog[i].url)
      IN
      ( /\ IsCurrent(i)
        /\ routeLog[i].method = lastMatch.method
        /\ Len(ki) >= 1
        /\ Last(ki) = WildEdge
        /\ Slice1(Last(pat)) # <<>>
        /\ AllStatic(Front(ki))
        /\ Len(MatchSegs) >= Len(ki)
        /\ SubSeq(MatchSegs, 1, Len(ki) - 1) = Literals(Front(ki)) )
      =>
        /\ lastMatch.result # <<>>
        /\ lastMatch.result[1].handler = i
        /\ lastMatch.result[1].params =
             (Slice1(Last(pat)) :>
                Join(SubSeq(MatchSegs, Len(ki), Len(MatchSegs)), Slash))

\* C9 (as claimed): whatever routes are registered, the params match returns
\* are bound under exactly the names the matched route's own pattern
\* declares.
C9_ParameterNames_Claim ==
  Matched =>
    lastMatch.result[1].params =
      DeclaredParams(splitPath(lastMatch.result[1].route.url), MatchSegs, 1)

\* the step of one registration, as C10 states it
C10_Registration ==
  Len(routeLog') = Len(routeLog) + 1 =>
    LET h == Len(routeLog')
        e == routeLog'[h]
        k == PatternKey(e.url)
    IN
    /\ HasNode(nodes', k)
    /\ e.method \in DOMAIN nodes'[k].routes
    /\ nodes'[k].routes[e.method].handler = h
    /\ \A k2 \in DOMAIN nodes : \A m2 \in DOMAIN nodes[k2].routes :
         (k2 # k \/ m2 # e.method) =>
           /\ HasNode(nodes', k2)
           /\ m2 \in DOMAIN nodes'[k2].routes
           /\ nodes'[k2].routes[m2] = nodes[k2].routes[m2]

\* what match returns after registrations, as C10 states it
C10_MatchLatest ==
  Matched =>
    LET h == lastMatch.result[1].handler IN
    /\ routeLog[h].method = lastMatch.method
    /\ IsCurrent(h)

\* C10: registering a route for a (method, node) that already has one
\* replaces it; afterwards match for that method returns the later handler,
\* and the routes of other methods on that node and of every other node are
\* unchanged.
C10_LastWriteWins == []C10_MatchLatest /\ [][C10_Registration]_vars

\* a (method, node) was registered twice and match returned the later handler
C10_Witness ==
  /\ Matched
  /\ \E i \in 1..Len(routeLog) :
       /\ i < lastMatch.result[1].handler
       /\ routeLog[i].method = lastMatch.method
       /\ PatternKey(routeLog[i].url) =
            PatternKey(routeLog[lastMatch.result[1].handler].url)
  /\ \E k \in DOMAIN nodes : Cardinality(DOMAIN nodes[k].routes) = 2

-----------------------------------------------------------------------------
(* Scope and lifecycle properties *)

RECURSIVE AncOrSelf(_, _)
AncOrSelf(scs, s) ==
  IF s = 0 THEN {} ELSE {s} \cup AncOrSelf(scs, scs[s].parent)

ReqMatched == req.route # <<>>

\* the scope in which the route of the request was registered
ReqScope == routeLog[req.route[1].handler].scope

ReqOwn == routeLog[req.route[1].handler].own

LifecyclePhases == HookNames \ {"onError"}

\* indices of the trace where a hook of a lifecycle phase ran
HookSteps == {i \in 1..Len(req.trace) : req.trace[i].phase \in LifecyclePhases}

\* the hook was added with addHook (it is not an inline route hook)
Scoped(i) == req.trace[i].who.owner # 0

Ran(id) == \E i \in HookSteps : req.trace[i].who = id

\* no hook returned a Response, marked the reply sent or threw, and the
\* handler returned without throwing and without using the reply
CleanRun ==
  /\ \A i \in HookSteps : req.trace[i].out = "pass"
  /\ \A i \in 1..Len(req.trace) :
       /\ req.trace[i].phase # "onError"
       /\ req.trace[i].phase = "handler" => req.trace[i].out \in {"pass", "respond"}

\* C1: a hook or decoration added inside a child scope is never in the hook
\* lists or decoration maps of its parent, of the root or of a sibling, and
\* never runs for a request matched to a route of a sibling or of the root.
C1_ScopeNonLeak ==
  /\ \A s \in 1..Len(scopes) :
       /\ \A p \in HookNames : \A i \in 1..Len(scopes[s].hooks[p]) :
            scopes[s].hooks[p][i].owner \in AncOrSelf(scopes, s)
       /\ \A n \in DOMAIN scopes[s].decorations :
            scopes[s].decorations[n] \in AncOrSelf(scopes, s)
       /\ \A n \in DOMAIN scopes[s].requestDecorations :
            scopes[s].requestDecorations[n] \in AncOrSelf(scopes, s)
  /\ ReqMatched =>
       /\ \A i \in 1..Len(req.trace) :
            (req.trace[i].phase \in HookNames /\ Scoped(i)) =>
              req.trace[i].who.owner \in AncOrSelf(scopes, ReqScope)
       /\ \A n \in DOMAIN req.decor : req.decor[n] \in AncOrSelf(scopes, ReqScope)

\* a child scope added an onRequest hook, and a request matched to a route
\* of its sibling ran to its end
C1_Witness ==
  /\ req.st = "done"
  /\ ReqMatched
  /\ Len(req.trace) >= 2
  /\ \E c \in 2..Len(scopes) :
       /\ OwnCount(scopes[c].hooks["onRequest"], c) > 0
       /\ ReqScope # c
       /\ ReqScope # 1
       /\ scopes[ReqScope].parent = scopes[c].parent

\* C2 (as claimed): for every hook phase, a hook added inside a child scope
\* before a route is registered in that scope runs for every request matched
\* to that route, unless an earlier hook short-circuited or threw.
C2_ScopeHooksApply_Claim ==
  (req.st = "done" /\ ReqMatched /\ ReqScope # 1 /\ CleanRun) =>
    \A p \in LifecyclePhases : \A k \in 1..ReqOwn[p] :
      Ran(HookId(ReqScope, p, k))

\* C3: once an onRequest hook returns a Response nothing else of the
\* request executes, and that Response is what handle returns.
C3_OnRequestShortCircuit ==
  \A i \in 1..Len(req.trace) :
    (req.trace[i].phase = "onRequest" /\ req.trace[i].out \in {"respond", "reply"}) =>
      /\ i = Len(req.trace)
      /\ req.st = "done"
      /\ req.result = <<Resp("hook", req.trace[i].who)>>

\* the first of several onRequest hooks of a route returned a Response
C3_Witness ==
  /\ req.st = "done"
  /\ ReqMatched
  /\ Len(req.trace) = 1
  /\ req.trace[1].phase = "onRequest"
  /\ req.trace[1].out = "respond"
  /\ Len(req.route[1].hooks["onRequest"]) >= 2
  /\ Len(req.route[1].hooks["preHandler"]) >= 1

\* the order of the steps as C4 states it
C4_Order ==
  <<"onRequest", "preParsing", "body", "preValidation", "preHandler",
    "handler", "preSerialization", "onSend", "onResponse">>

C4_Rank(phase) == CHOOSE n \in 1..Len(C4_Order) : C4_Order[n] = phase

\* the hooks that apply to the request in a phase, in registration order
C4_Hooks(phase) ==
  IF phase \in RouteFrozenPhases THEN req.route[1].hooks[phase]
  ELSE IF phase \in {"body", "handler"} THEN <<1>>
  ELSE scopes[1].hooks[phase]

C4_Pos(i) ==
  LET st == req.trace[i] IN
  IF st.phase \in {"body", "handler"} THEN 1
  ELSE CHOOSE n \in 1..Len(C4_Hooks(st.phase)) : C4_Hooks(st.phase)[n] = st.who

\* the steps of a request that runs every step
RECURSIVE C4_Full(_)
C4_Full(n) ==
  IF n > Len(C4_Order) THEN <<>>
  ELSE [i \in 1..Len(C4_Hooks(C4_Order[n])) |-> C4_Order[n]] \o C4_Full(n + 1)

\* C4: the steps of a matched request execute in the order onRequest,
\* preParsing, body parsing, preValidation, preHandler, handler,
\* preSerialization, onSend, onResponse (registration order within a phase),
\* one at a time; when no hook returns a Response, marks the reply sent or
\* throws, every one of these steps executes.
C4_FixedPhaseOrder ==
  ReqMatched =>
    LET L == {i \in 1..Len(req.trace) : req.trace[i].phase # "onError"} IN
    /\ \A i, j \in L :
         i < j =>
           \/ C4_Rank(req.trace[i].phase) < C4_Rank(req.trace[j].phase)
           \/ /\ req.trace[i].phase = req.trace[j].phase
              /\ C4_Pos(i) < C4_Pos(j)
    /\ (req.st = "done" /\ CleanRun) =>
         [i \in 1..Len(req.trace) |-> req.trace[i].phase] = C4_Full(1)

\* a POST request ran all its steps: hooks of at least three phases, body
\* parsing and the handler
C4_Witness ==
  /\ req.st = "done"
  /\ ReqMatched
  /\ CleanRun
  /\ req.method = "POST"
  /\ Cardinality({req.trace[i].phase : i \in 1..Len(req.trace)}) >= 6
  /\ \E i \in HookSteps : Scoped(i) /\ ~(req.trace[i].phase \in RouteFrozenPhases)

\* C6 (as claimed): for every hook phase, a hook added to a scope (the root
\* included) after a route was registered in that scope does not run for
\* requests matched to that route.
C6_RegistrationFreeze_Claim ==
  ReqMatched =>
    \A i \in HookSteps :
      (Scoped(i) /\ req.trace[i].who.owner = ReqScope) =>
        req.trace[i].who.k <= ReqOwn[req.trace[i].phase]

-----------------------------------------------------------------------------
(* RPC properties *)

\* The middleware list a builder history asks for: the arguments of
\* createProcedure, then the argument of each use() in call order
RECURSIVE ExpectedMiddlewares(_)
ExpectedMiddlewares(ops) ==
  IF ops = <<>> THEN <<>>
  ELSE LET o == Last(ops) IN
       IF o.op \in {"create", "use"}
       THEN ExpectedMiddlewares(Front(ops)) \o o.arg
       ELSE ExpectedMiddlewares(Front(ops))

Reversed(seq) == [i \in 1..Len(seq) |-> seq[Len(seq) + 1 - i]]

\* m1-before, ..., mn-before, handler, mn-after, ..., m1-after
ExpectedOrder(def) ==
  LET ms == ExpectedMiddlewares(def.ops) IN
  [i \in 1..Len(ms) |-> <<"before", ms[i]>>]
    \o << <<"handler", def.handler>> >>
    \o [i \in 1..Len(ms) |-> <<"after", Reversed(ms)[i]>>]

Observed(call) ==
  [i \in 1..Len(call.trace) |-> <<call.trace[i].ev, call.trace[i].who>>]

IsPrefix(a, b) == Len(a) <= Len(b) /\ SubSeq(b, 1, Len(a)) = a

\* The behaviours that call next() exactly once
OnceCallers == {"next", "replace"}

\* C5: RPC middleware order. For a procedure built with createProcedure(...)
\* and use(), a call in which every middleware invoked calls next() exactly
\* once runs m1-before, ..., mn-before, handler, mn-after, ..., m1-after in
\* exactly that order (m1..mn being createProcedure's arguments followed by
\* the use() arguments in call order); when the middlewares return what
\* next() gave them, every next() returns the handler's result and that
\* result is the output of the call.
C5_MiddlewareOrder ==
  \A c \in CallIds :
    LET call == calls[c] IN
    call.proc # <<>> =>
      LET def == call.proc[1]
          result == Val("handler", def.handler)
      IN
      /\ (\A i \in 1..Len(call.behs) : call.behs[i] \in OnceCallers) =>
           /\ IsPrefix(Observed(call), ExpectedOrder(def))
           /\ call.output # <<>> => Observed(call) = ExpectedOrder(def)
      /\ (\A i \in 1..Len(call.behs) : call.behs[i] = "next") =>
           /\ \A i \in 1..Len(call.trace) :
                call.trace[i].ev = "after" => call.trace[i].val = result
           /\ call.output # <<>> => call.output[1] = result

\* A call through createProcedure(m1).use(m2) or longer, with different
\* middlewares that all pass through, has answered 200
C5_Witness ==
  \E c \in CallIds :
    LET call == calls[c] IN
    /\ call.st = "done"
    /\ call.output # <<>>
    /\ call.response[1].status = 200
    /\ LET def == call.proc[1] IN
       /\ Len(def.middlewares) >= 2
       /\ def.middlewares[1] # def.middlewares[2]
       /\ def.ops[1].op = "create"
       /\ \E i \in 1..Len(def.ops) : def.ops[i].op = "use"
       /\ Len(call.trace) = 2 * Len(def.middlewares) + 1
       /\ \A i \in 1..Len(call.behs) : call.behs[i] = "next"

\* the validators and middleware of a builder or of a definition
Parts(x) ==
  [inputSchema |-> x.inputSchema, outputSchema |-> x.outputSchema,
   middlewares |-> x.middlewares]

HasOp(ops, name) == \E i \in 1..Len(ops) : ops[i].op = name

\* what a history of builder calls gives: a validator for each input() /
\* output() in it, and the middleware of its createProcedure and use() calls
MatchesHistory(x) ==
  /\ x.middlewares = ExpectedMiddlewares(x.ops)
  /\ (x.inputSchema # <<>>) = HasOp(x.ops, "input")
  /\ (x.outputSchema # <<>>) = HasOp(x.ops, "output")

\* a step of input(), output(), use(), query() or mutation() leaves every
\* existing builder and every existing definition as it was
C11_ReceiverKept ==
  /\ \A b \in 1..Len(builders) :
       b <= Len(builders') /\ builders'[b] = builders[b]
  /\ \A d \in 1..Len(defs) :
       d <= Len(defs') /\ defs'[d] = defs[d]

C11_Branches ==
  /\ builders[1] = ProcedureBuilder(<<>>, <<>>)
  /\ \A b \in 1..Len(builders) : MatchesHistory(builders[b])
  /\ \A d \in 1..Len(defs) :
       /\ MatchesHistory(defs[d])
       /\ \A b \in 1..Len(builders) :
            builders[b].ops = defs[d].ops => Parts(defs[d]) = Parts(builders[b])
       /\ defs[d].ops = <<>> =>
            Parts(defs[d]) = [inputSchema |-> <<>>, outputSchema |-> <<>>,
                              middlewares |-> <<>>]

\* C11: builder immutability. input(), output() and use() never alter the
\* receiver builder; a definition terminated from a builder has exactly that
\* builder's validators and middleware (none at all for the default
\* `procedure`), and the middleware of a definition is that of its own
\* branch only: the createProcedure arguments and the use() arguments of the
\* calls that led to it.
C11_BuilderImmutability == []C11_Branches /\ [][C11_ReceiverKept]_vars

\* two builders were derived from the same base by different calls, and a
\* definition was terminated from the base or from one of the branches
C11_Witness ==
  /\ Len(builders) = 3
  /\ Len(defs) = 1
  /\ \E o2, o3 \in {"input", "output", "use"} :
       /\ builders[2].ops = <<Op(o2, builders[2].ops[1].arg)>>
       /\ builders[3].ops = <<Op(o3, builders[3].ops[1].arg)>>
       /\ builders[2].ops # builders[3].ops
       /\ HasOp(builders[2].ops, "use") \/ HasOp(builders[3].ops, "use")
  /\ defs[1].ops \in {<<>>, builders[2].ops}

-----------------------------------------------------------------------------
(* RPC dispatch properties *)

ReservedPaths == {"openapi.json", "manifest.json"}

Flat == flatRoutes[1]

Started(call) == call.st # "idle"

\* the call answered with an error envelope of this status and code
ErrorIs(call, status, code) ==
  /\ call.st = "done"
  /\ call.response[1].status = status
  /\ call.response[1].body.result = <<>>
  /\ call.response[1].body.error # <<>>
  /\ call.response[1].body.error[1].code = code

\* no validator, context factory, middleware or handler was invoked
NothingInvoked(call) == call.invoked = <<>> /\ call.trace = <<>>

\* C12: unknown procedure. A request whose dotted path, the /_rpc/ prefix
\* stripped, is neither a key of the flattened map nor a reserved path is
\* answered 404 with code NOT_FOUND and a message containing that path, for
\* every method and body, and no validator, context factory, middleware or
\* handler is invoked.
C12_UnknownProcedure ==
  \A c \in CallIds :
    LET call == calls[c] IN
    (Started(call) /\ call.path \notin DOMAIN Flat /\ call.path \notin ReservedPaths)
    =>
      /\ ErrorIs(call, 404, "NOT_FOUND")
      /\ \E i \in 1..Len(call.response[1].body.error[1].message) :
           call.response[1].body.error[1].message[i] = call.path
      /\ NothingInvoked(call)

\* a PUT with a JSON body for a path that is not registered was answered
C12_Witness ==
  \E c \in CallIds :
    /\ calls[c].st = "done"
    /\ calls[c].method = "PUT"
    /\ calls[c].body = "ok"
    /\ calls[c].path = "x"
    /\ calls[c].response[1].status = 404

\* C13: wrong verb on a mutation. A request for a registered mutation with
\* a method other than POST is answered 405 with code METHOD_NOT_ALLOWED,
\* whatever its input (the check precedes parsing and validation), and no
\* validator, context factory, middleware or handler is invoked.
C13_WrongVerb ==
  \A c \in CallIds :
    LET call == calls[c] IN
    ( /\ Started(call)
      /\ call.path \in DOMAIN Flat
      /\ Flat[call.path].type = "mutation"
      /\ call.method # "POST" )
    =>
      /\ ErrorIs(call, 405, "METHOD_NOT_ALLOWED")
      /\ NothingInvoked(call)

\* a PUT whose body is not JSON, for a mutation that has an input validator,
\* was answered 405
C13_Witness ==
  \E c \in CallIds :
    /\ calls[c].st = "done"
    /\ calls[c].method = "PUT"
    /\ calls[c].body = "bad"
    /\ calls[c].proc # <<>>
    /\ calls[c].proc[1].type = "mutation"
    /\ calls[c].proc[1].inputSchema # <<>>
    /\ calls[c].response[1].status = 405

\* C14: input validation failure. When the input validator of the procedure
\* rejects the parsed input, the answer is 400 with code VALIDATION_ERROR and
\* the validator's issue list, and neither the context factory nor a
\* middleware nor the handler is invoked.
C14_InputValidationFailure ==
  \A c \in CallIds :
    LET call == calls[c] IN
    (call.validated # <<>> /\ ~call.validated[1].success) =>
      /\ ErrorIs(call, 400, "VALIDATION_ERROR")
      /\ call.response[1].body.error[1].issues = <<call.validated[1].issues>>
      /\ call.invoked = <<"inputValidator">>
      /\ call.trace = <<>>

\* the validator of a procedure with middleware rejected a parsed JSON body
C14_Witness ==
  \E c \in CallIds :
    /\ calls[c].st = "done"
    /\ calls[c].validated # <<>>
    /\ ~calls[c].validated[1].success
    /\ calls[c].validated[1].issues # <<>>
    /\ calls[c].method = "POST"
    /\ calls[c].body = "ok"
    /\ Len(calls[c].proc[1].middlewares) >= 1
    /\ calls[c].response[1].status = 400

\* the call answered with an error envelope that has a code and a message
HasEnvelope(call) ==
  /\ call.st = "done"
  /\ call.response[1].body.result = <<>>
  /\ call.response[1].body.error # <<>>
  /\ call.response[1].body.error[1].code # ""
  /\ call.response[1].body.error[1].message # <<>>

\* C15 (as claimed): handle() always resolves to a response and never
\* rejects; an exception escaping the context factory, the middleware chain,
\* the handler or output validation gives an error envelope with a code and
\* a message.
C15_AlwaysEnvelope_Claim ==
  \A c \in CallIds :
    LET call == calls[c] IN
    /\ call.st # "rejected"
    /\ call.thrown # <<>> => HasEnvelope(call)

\* C16 (as claimed): when a middleware or the handler throws, the answer is
\* an error envelope whose code is the thrown value's code if present, else
\* INTERNAL_ERROR, whose status is its statusCode if present, else 500, and
\* whose message is its message; the exception is caught once and there is
\* no success envelope.
C16_Classification_Claim ==
  \A c \in CallIds :
    LET call == calls[c] IN
    (call.thrown # <<>> /\ call.verdict = <<>>) =>
      LET e == call.thrown[1] IN
      /\ ErrorIs(call,
                 IF e.statusCode # <<>> THEN e.statusCode[1] ELSE 500,
                 IF e.code # <<>> THEN e.code[1] ELSE "INTERNAL_ERROR")
      /\ call.response[1].body.error[1].message = Msg(e.message)
      /\ Cardinality({i \in 1..Len(call.invoked) : call.invoked[i] = "catch"}) = 1

-----------------------------------------------------------------------------
(* HTTP error recovery properties *)

\* the calls of error handlers made for the request, in order
ErrorCalls(r) == SelectSeq(r.trace, LAMBDA s : s.phase = "onError")

ReturnsResponse(b) == b \in {"respond", "reply"}

\* the user functions of a request: hooks of the lifecycle phases, handler
Throwers == (HookNames \ {"onError"}) \cup {"handler"}

\* those that runLifecycle awaits inside the try of handle
AwaitedSteps == Throwers \ {"onResponse"}

\* a hook of one of the given phases, or the route handler, threw
ThrewIn(r, phases) ==
  \E i \in 1..Len(r.trace) :
    r.trace[i].phase \in phases /\ r.trace[i].out = "throw"

\* the error handlers hs were tried in order with the error caught, up to
\* the first that returned a Response
TriedInOrder(r, hs) ==
  LET ec == ErrorCalls(r) IN
  /\ Len(ec) <= Len(hs)
  /\ \A i \in 1..Len(ec) :
       /\ ec[i].who = hs[i]
       /\ ec[i].arg = r.error[1]
       /\ i < Len(ec) => ~ReturnsResponse(ec[i].out)

\* the outcome of the recovery, where text is the error text of the default
\* body
Recovered(r, hs, text) ==
  LET ec == ErrorCalls(r)
      status == IF r.error[1].statusCode # <<>>
                THEN r.error[1].statusCode[1] ELSE 500
  IN
  /\ r.error # <<>>
  /\ TriedInOrder(r, hs)
  /\ r.st = "done" =>
       IF ec # <<>> /\ ReturnsResponse(ec[Len(ec)].out)
       THEN r.result = <<Resp("onError", ec[Len(ec)].who)>>
       ELSE /\ Len(ec) = Len(hs)
            /\ r.result[1].kind = "defaultError"
            /\ r.result[1].status = status
            /\ r.result[1].body = [error |-> text, statusCode |-> status]

-----------------------------------------------------------------------------
(* Wire codec properties *)

\* C19 (as claimed): for every value x built from the supported types,
\* nested to a bounded depth, encode(x) returns and decode(encode(x)) is
\* equal to x. Values are kept in a canonical form (a Date by its time
\* value, a bigint by its number, a Set and a Map by their elements in
\* insertion order, a RegExp by source and flags), so equality of the
\* records is the natural equality of the claim.
C19_RoundTrip_Claim ==
  /\ wire.encoded # <<Thrown>>
  /\ wire.st = "decoded" => wire.decoded = wire.value

KnownTags ==
  { Str(<<tag>>) :
      tag \in {"Date", "BigInt", "Undefined", "Set", "Map", "RegExp"} }

\* a container with the two reserved keys
IsContainer(doc) ==
  /\ doc.t = "object"
  /\ {"__t", "v"} \subseteq {doc.entries[i][1] : i \in 1..Len(doc.entries)}

\* a container with a known tag occurs in doc, at any depth inside arrays
\* and plain objects
RECURSIVE KnownTagInside(_)
KnownTagInside(doc) ==
  IF doc.t = "array"
  THEN \E i \in 1..Len(doc.items) : KnownTagInside(doc.items[i])
  ELSE IF doc.t # "object" THEN FALSE
  ELSE IF IsContainer(doc) THEN Get(doc, "__t") \in KnownTags
  ELSE \E i \in 1..Len(doc.entries) : KnownTagInside(doc.entries[i][2])

\* dec has, wherever doc has a container with an unknown tag (at any depth
\* inside arrays and plain objects), that container unchanged
RECURSIVE KeepsUnknown(_, _)
KeepsUnknown(doc, dec) ==
  IF doc.t = "array" THEN
    /\ dec.t = "array"
    /\ Len(dec.items) = Len(doc.items)
    /\ \A i \in 1..Len(doc.items) : KeepsUnknown(doc.items[i], dec.items[i])
  ELSE IF doc.t # "object" THEN TRUE
  ELSE IF IsContainer(doc) THEN
    Get(doc, "__t") \notin KnownTags => dec = doc
  ELSE
    /\ dec.t = "object"
    /\ Len(dec.entries) = Len(doc.entries)
    /\ \A i \in 1..Len(doc.entries) :
         /\ dec.entries[i][1] = doc.entries[i][1]
         /\ KeepsUnknown(doc.entries[i][2], dec.entries[i][2])

\* C20: unknown tag. decode of a container that has the two reserved keys
\* and a tag other than Date, BigInt, Undefined, Set, Map, RegExp returns
\* the container unchanged, its payload not decoded, at any nesting depth
\* inside arrays and plain objects; and decode raises no error on a document
\* whose containers all have unknown tags.
C20_UnknownTag ==
  wire.st = "received" =>
    LET doc == wire.document[1]
        dec == wire.decoded[1]
    IN
    /\ dec # Thrown => KeepsUnknown(doc, dec)
    /\ ~KnownTagInside(doc) => dec # Thrown

\* decode of [date, {k: {__t: 'X', v: date}}]: the first element became a
\* Date, the container with tag X came back with its payload still encoded
C20_Witness ==
  /\ wire.st = "received"
  /\ wire.document[1].t = "array"
  /\ Len(wire.document[1].items) = 2
  /\ wire.document[1].items[2].t = "object"
  /\ ~IsContainer(wire.document[1].items[2])
  /\ IsContainer(wire.document[1].items[2].entries[1][2])
  /\ Get(wire.document[1].items[2].entries[1][2], "__t") \notin KnownTags
  /\ IsContainer(Get(wire.document[1].items[2].entries[1][2], "v"))
  /\ wire.decoded[1].t = "array"
  /\ wire.decoded[1].items[1].t = "Date"
  /\ wire.decoded[1].items[2] = wire.document[1].items[2]

-----------------------------------------------------------------------------
(* Request lifecycle properties *)

\* the phases whose hooks runHooks awaits
AwaitedPhases == LifecyclePhases \ {"onResponse"}

\* the hooks of phase p that ran for the request, in the order they ran
RanIn(p) ==
  LET steps == SelectSeq(req.trace, LAMBDA s : s.phase = p) IN
  [i \in 1..Len(steps) |-> steps[i].who]

\* C23 (as claimed): a Response returned by a hook of any phase (onRequest,
\* preParsing, preValidation, preHandler, preSerialization, onSend) ends the
\* request at once: nothing of the request runs after that hook, and that
\* Response is the one handle() returns.
C23_ShortCircuitAnyPhase_Claim ==
  \A i \in 1..Len(req.trace) :
    (req.trace[i].phase \in AwaitedPhases
       /\ req.trace[i].out \in {"respond", "reply"}) =>
      /\ i = Len(req.trace)
      /\ req.st = "done"
      /\ req.result = <<Resp("hook", req.trace[i].who)>>

\* C24 (as claimed): within every phase every hook of the phase's list runs
\* exactly once, in registration order, unless an earlier hook of the
\* request returned a Response or threw; also when the handler built its
\* response with a reply helper, which marks the reply as sent.
C24_EveryHookRuns_Claim ==
  (/\ req.st = "done"
   /\ ReqMatched
   /\ \A i \in HookSteps : req.trace[i].out = "pass"
   /\ \A i \in 1..Len(req.trace) :
        /\ req.trace[i].phase # "onError"
        /\ req.trace[i].out # "throw") =>
    \A p \in LifecyclePhases : RanIn(p) = PhaseHooks(scopes, req, p)

\* The hook list scope c has for phase p once it has n hooks of its own: the
\* list its parent had when c was created, then c's own hooks
RECURSIVE ExpectedScopeHooks(_, _, _)
ExpectedScopeHooks(c, p, n) ==
  (IF scopes[c].parent = 0 THEN <<>>
   ELSE ExpectedScopeHooks(scopes[c].parent, p, scopes[c].born[p]))
  \o [k \in 1..n |-> HookId(c, p, k)]

\* parent-inherited hooks, then the scope's own as they were when the route
\* was registered, then the hooks passed inline with the route
ExpectedRouteHooks(rid, p) ==
  ExpectedScopeHooks(routeLog[rid].scope, p, routeLog[rid].own[p])
  \o (IF p \in routeLog[rid].opts THEN <<HookId(0, p, rid)>> ELSE <<>>)

C26_RequestDecorations_Claim ==
  ReqMatched =>
    \A s \in 1..Len(scopes) : \A n \in DOMAIN scopes[s].requestDecorations :
      scopes[s].requestDecorations[n] = s =>
        IF s \in AncOrSelf(scopes, ReqScope)
        THEN n \in DOMAIN req.decor
        ELSE ~(n \in DOMAIN req.decor /\ req.decor[n] = s)

\* C27: error handlers are process-wide. For an error raised by the handler
\* or an awaited hook of a route of any scope, the onError handlers
\* registered on the root scope are invoked (each one unless an earlier one
\* already returned a Response), and an onError handler registered inside a
\* child scope is never invoked, not even for routes of that child scope.
C27_ErrorHandlersProcessWide ==
  /\ \A i \in 1..Len(ErrorCalls(req)) : ErrorCalls(req)[i].who.owner = 1
  /\ (req.st = "done" /\ req.error # <<>>) =>
       \A k \in 1..Len(scopes[1].hooks["onError"]) :
         \/ /\ k <= Len(ErrorCalls(req))
            /\ ErrorCalls(req)[k].who = HookId(1, "onError", k)
         \/ \E j \in 1..(k - 1) :
              /\ j <= Len(ErrorCalls(req))
              /\ ReturnsResponse(ErrorCalls(req)[j].out)

\* the handler of a route of a child scope threw; the child scope has an
\* onError handler of its own, and the one of the root scope was invoked
C27_Witness ==
  /\ req.st = "done"
  /\ ReqMatched
  /\ ReqScope # 1
  /\ ThrewIn(req, {"handler"})
  /\ OwnCount(scopes[ReqScope].hooks["onError"], ReqScope) > 0
  /\ Len(ErrorCalls(req)) = 1
  /\ ErrorCalls(req)[1].who.owner = 1

\* the positions of the trace at which the route handler was called
HandlerCalls == {i \in 1..Len(req.trace) : req.trace[i].phase = "handler"}

\* the Response runLifecycle builds from what the handler did
Normalised(step) ==
  IF step.out \in {"respond", "reply"} THEN Resp("handler", step.who)
  ELSE IF step.out = "sent" THEN Resp("replyStatus", step.who)
  ELSE Resp("204", step.who)

\* C28: handler outcome normalization. After the handler of a matched request
\* completes without throwing, the response is the Response the handler
\* returned; else, if the reply was marked sent, an empty response with the
\* reply's status code; else an empty 204 response; preSerialization and
\* onSend hooks that return nothing do not change it.
C28_HandlerOutcome ==
  \A i \in HandlerCalls :
    (/\ req.st = "done"
     /\ req.trace[i].out # "throw"
     /\ \A j \in (i + 1)..Len(req.trace) :
          req.trace[j].phase \in {"preSerialization", "onSend"} =>
            req.trace[j].out \in {"pass", "sent"})
    => req.result = <<Normalised(req.trace[i])>>

\* the handler marked the reply sent and returned nothing, a preSerialization
\* hook then ran and returned nothing
C28_Witness ==
  /\ req.st = "done"
  /\ \E i \in HandlerCalls :
       /\ req.trace[i].out = "sent"
       /\ req.result = <<Resp("replyStatus", req.trace[i].who)>>
       /\ \E j \in (i + 1)..Len(req.trace) :
            /\ req.trace[j].phase = "preSerialization"
            /\ req.trace[j].out = "pass"

\* the positions of the trace at which parseBody ran
BodySteps == {i \in 1..Len(req.trace) : req.trace[i].phase = "body"}

AfterBodyPhases ==
  {"preValidation", "preHandler", "handler", "preSerialization", "onSend",
   "onResponse"}

\* C29: body parsing. It runs at most once per matched request and exactly
\* once before anything of preValidation or of a later phase runs, after all
\* preParsing hooks; it is skipped for GET and HEAD (and only for them); when
\* deserialization fails no onError handler is invoked and the lifecycle goes
\* on with preValidation as it does for a request without a body.
C29_BodyParsing ==
  /\ Cardinality(BodySteps) <= 1
  /\ \A i \in 1..Len(req.trace) :
       req.trace[i].phase \in AfterBodyPhases => \E b \in BodySteps : b < i
  /\ \A b \in BodySteps :
       /\ ReqMatched
       /\ RanIn("preParsing") = PhaseHooks(scopes, req, "preParsing")
       /\ \A i \in 1..Len(req.trace) :
            req.trace[i].phase \in {"onRequest", "preParsing"} => i < b
       /\ req.trace[b].out = "skipped" <=> req.method \in {"GET", "HEAD"}
       /\ IF b = Len(req.trace)
          THEN /\ req.st = "run"
               /\ req.err = <<>>
               /\ req.result = <<>>
               /\ PhaseSeq[req.pi] \in AfterBodyPhases
               /\ PhaseHooks(scopes, req, "preValidation") # <<>> =>
                    PhaseSeq[req.pi] = "preValidation" /\ req.hi = 1
          ELSE /\ req.trace[b + 1].phase \in AfterBodyPhases
               /\ PhaseHooks(scopes, req, "preValidation") # <<>> =>
                    req.trace[b + 1].who =
                      PhaseHooks(scopes, req, "preValidation")[1]

\* deserialization of the body of a POST failed, then a preValidation hook
\* and the handler ran and the handler's response was returned
C29_Witness ==
  /\ req.st = "done"
  /\ req.method = "POST"
  /\ \E b \in BodySteps :
       /\ req.trace[b].out = "undefined"
       /\ req.trace[b + 1].phase = "preValidation"
  /\ \E i \in HandlerCalls : req.result = <<Resp("handler", req.trace[i].who)>>
  /\ ErrorCalls(req) = <<>>

\* C30: onResponse is fire-and-forget. Once an onResponse hook was started,
\* whatever it does (throw, return a Response, mark the reply sent) no onError
\* handling takes place and the response of handle() stays the one built
\* from the handler's result; the onResponse hooks are started in
\* registration order, every one of them, also after one that threw.
C30_OnResponseFireAndForget ==
  RanIn("onResponse") # <<>> =>
    /\ req.st \in {"run", "done"}
    /\ req.error = <<>>
    /\ ErrorCalls(req) = <<>>
    /\ \E i \in HandlerCalls : req.response = <<Normalised(req.trace[i])>>
    /\ \A k \in 1..Len(RanIn("onResponse")) :
         RanIn("onResponse")[k] = PhaseHooks(scopes, req, "onResponse")[k]
    /\ req.st = "done" =>
         /\ req.result = req.response
         /\ RanIn("onResponse") = PhaseHooks(scopes, req, "onResponse")
    /\ req.st = "run" => PhaseSeq[req.pi] = "onResponse"

\* the first of two onResponse hooks threw, the second was started and the
\* response is the handler's
C30_Witness ==
  /\ req.st = "done"
  /\ Len(RanIn("onResponse")) = 2
  /\ \E i \in 1..Len(req.trace) :
       /\ req.trace[i].phase = "onResponse"
       /\ req.trace[i].out = "throw"
       /\ i < Len(req.trace)
       /\ req.trace[i + 1].phase = "onResponse"
  /\ \E i \in HandlerCalls : req.result = <<Resp("handler", req.trace[i].who)>>

-----------------------------------------------------------------------------
(* Flattening properties *)

IsLeaf(value) ==
  /\ "type" \in DOMAIN value
  /\ value.type \in {"query", "mutation"}
  /\ "handler" \in DOMAIN value

\* the leaves below node, each with the keys on the path that leads to it
RECURSIVE Leaves(_, _)
Leaves(node, keys) ==
  UNION { LET here == Append(keys, node.entries[i][1])
              value == node.entries[i][2]
          IN IF IsLeaf(value) THEN { <<here, value>> }
             ELSE Leaves(value, here)
          : i \in 1..Len(node.entries) }

RECURSIVE Joined(_)
Joined(keys) ==
  IF Len(keys) = 1 THEN keys[1] ELSE keys[1] \o "." \o Joined(Tail(keys))

\* C22: flattening. The flattened map of a router definition has exactly one
\* entry per leaf, whose key is the keys on the path from the root joined
\* with '.', and whose value is the leaf.
C22_Flattening_Claim ==
  flatRoutes # <<>> =>
    LET leaves == Leaves(routerDefinition[1], <<>>) IN
    /\ Cardinality(DOMAIN flatRoutes[1]) = Cardinality(leaves)
    /\ \A l \in leaves :
         /\ Joined(l[1]) \in DOMAIN flatRoutes[1]
         /\ flatRoutes[1][Joined(l[1])] = l[2]

-----------------------------------------------------------------------------
(* Client call properties *)

\* C21: client and server agree on the call convention. For every supported
\* input value x, query(x) on a query procedure and mutate(x) on a mutation
\* procedure make the handler receive an input equal to x; when the handler
\* returns, the call resolves to a value equal to what it returned; when
\* handle() answers an error envelope, the call rejects with an RPCError
\* carrying the envelope's code, message and issues.
C21_CallConvention_Claim ==
  clientCall.st # "idle" =>
    /\ clientCall.received = clientCall.input
    /\ clientCall.outcome[1].ok =>
         /\ clientCall.st = "resolved"
         /\ clientCall.value = <<clientCall.outcome[1].value>>
    /\ clientCall.envelope # <<>> =>
         /\ clientCall.st = "rejected"
         /\ clientCall.error[1].name = "RPCError"
         /\ clientCall.error[1].code = clientCall.envelope[1].code
         /\ clientCall.error[1].message = clientCall.envelope[1].message
         /\ clientCall.error[1].issues = clientCall.envelope[1].issues

-----------------------------------------------------------------------------
(* Unmatched requests *)

\* C40: unmatched requests run nothing. When match(method, path) finds no
\* route, handle() answers 404 at once: no hook of any phase, no onError
\* handler, no body parsing and no handler is run, and no request decoration
\* is applied.
C40_UnmatchedRunsNothing ==
  (req.st # "idle" /\ ~ReqMatched) =>
    /\ req.st = "done"
    /\ req.result = <<Resp("404", <<>>)>>
    /\ req.trace = <<>>
    /\ req.decor = <<>>
    /\ req.error = <<>>
    /\ ~req.sent

\* a request was answered 404 although a route is registered and the root
\* scope has a hook or a request decoration
C40_Witness ==
  /\ req.st = "done"
  /\ ~ReqMatched
  /\ routeLog # <<>>
  /\ \/ \E p \in HookNames : scopes[1].hooks[p] # <<>>
     \/ scopes[1].requestDecorations # <<>>

-----------------------------------------------------------------------------
(* Router backtracking and completeness *)

\* The bindings made on the way from the root to the node at key, under the
\* names the nodes hold; a later assignment to a name replaces an earlier one
RECURSIVE BranchBindings(_, _, _)
BranchBindings(key, segs, i) ==
  IF i > Len(key) THEN <<>>
  ELSE
    LET parent == SubSeq(key, 1, i - 1) IN
    IF key[i] = WildEdge THEN
      (nodes[parent].wildcardName[1] :> Join(SubSeq(segs, i, Len(segs)), Slash))
    ELSE IF key[i] = ParamEdge THEN
      BranchBindings(key, segs, i + 1)
        @@ (nodes[parent].paramName[1] :> segs[i])
    ELSE BranchBindings(key, segs, i + 1)

\* C37 (as claimed): backtracking leaves no stale bindings. The params that
\* match returns are exactly the bindings made along the branch that led to
\* the route found: none made during an abandoned branch, and none missing.
C37_NoStaleBindings_Claim ==
  Matched =>
    lastMatch.result[1].params =
      BranchBindings(PatternKey(lastMatch.result[1].route.url), MatchSegs, 1)

\* the pattern (its segments) matches the path (its segments): a literal
\* equals its segment, a parameter takes one segment, a catch-all takes the
\* one or more segments that remain
RECURSIVE PatternMatches(_, _, _)
PatternMatches(pat, segs, i) ==
  IF i > Len(pat) THEN i > Len(segs)
  ELSE IF i > Len(segs) THEN FALSE
  ELSE IF StartsWith(pat[i], "*") THEN TRUE
  ELSE IF StartsWith(pat[i], ":") THEN PatternMatches(pat, segs, i + 1)
  ELSE pat[i] = segs[i] /\ PatternMatches(pat, segs, i + 1)

\* C38 (as claimed): matching is complete per method. match(method, path)
\* returns a route whenever a route registered for that method has a pattern
\* that matches the path, also when a node of higher precedence that holds
\* routes of other methods only is reached first.
C38_CompletePerMethod_Claim ==
  lastMatch.method # "" =>
    \A i \in 1..Len(routeLog) :
      ( /\ routeLog[i].method = lastMatch.method
        /\ PatternMatches(splitPath(routeLog[i].url), MatchSegs, 1) )
      => lastMatch.result # <<>>

-----------------------------------------------------------------------------
(* RPC middleware chain properties *)

\* how many of the events of the call's trace are of this kind and function
Invocations(call, ev, who) ==
  Cardinality({i \in 1..Len(call.trace) :
                 call.trace[i].ev = ev /\ call.trace[i].who = who})

Occurrences(list, x) == Cardinality({i \in 1..Len(list) : list[i] = x})

\* C39 (as claimed): at most one invocation per call. Every middleware of
\* the procedure is invoked at most once (once per place it has in the
\* chain) and the handler at most once, whatever the middlewares do, one
\* that calls next() twice included; when the handler is invoked every
\* middleware has been invoked before.
C39_AtMostOnce_Claim ==
  \A c \in CallIds :
    LET call == calls[c] IN
    call.proc # <<>> =>
      /\ Invocations(call, "handler", call.proc[1].handler) <= 1
      /\ \A i \in 1..Len(call.proc[1].middlewares) :
           Invocations(call, "before", call.proc[1].middlewares[i])
             <= Occurrences(call.proc[1].middlewares,
                            call.proc[1].middlewares[i])
      /\ \A i \in 1..Len(call.trace) :
           call.trace[i].ev = "handler" =>
             \A k \in 1..Len(call.proc[1].middlewares) :
               \E j \in 1..(i - 1) :
                 /\ call.trace[j].ev = "before"
                 /\ call.trace[j].who = call.proc[1].middlewares[k]

-----------------------------------------------------------------------------
(* RPC input properties *)

\* handle() got past the parsing of the input for this call
PastParsing(call) ==
  /\ call.proc # <<>>
  /\ call.st # "idle"
  /\ ~ErrorIs(call, 405, "METHOD_NOT_ALLOWED")
  /\ ~ErrorIs(call, 400, "PARSE_ERROR")

InputText(call) == IF call.method = "GET" THEN call.query ELSE call.body

\* handle() looked for the input of the call: the procedure exists and the
\* method suits it
Parsing(call) ==
  /\ call.proc # <<>>
  /\ call.st # "idle"
  /\ ~ErrorIs(call, 405, "METHOD_NOT_ALLOWED")

ParseErrorAnswer(call) ==
  /\ ErrorIs(call, 400, "PARSE_ERROR")
  /\ NothingInvoked(call)

\* C32 (as claimed): parse errors. An `input` parameter of a GET call, or a
\* JSON body of a non-GET non-multipart call, that cannot be JSON-parsed or
\* wire-decoded is answered 400 PARSE_ERROR with nothing invoked; a GET call
\* without `input` parameter is not a parse error.
C32_ParseErrors_Claim ==
  \A c \in CallIds :
    LET call == calls[c] IN
    Parsing(call) =>
      /\ InputText(call) \in {"empty", "bad", "undecodable"} =>
           ParseErrorAnswer(call)
      /\ (call.method # "GET" /\ call.body = "none") => ParseErrorAnswer(call)
      /\ (call.method = "GET" /\ call.query = "none") =>
           /\ ~ErrorIs(call, 400, "PARSE_ERROR")
           /\ call.proc[1].inputSchema = <<>> => call.input = <<>>

\* C32: parse errors. A non-empty `input` parameter of a GET call, or a body
\* of a non-GET non-multipart call, that cannot be JSON-parsed or
\* wire-decoded is answered 400 PARSE_ERROR with nothing invoked; a GET call
\* whose `input` parameter is absent or empty is not a parse error and goes
\* on with an absent input.
C32_ParseErrors ==
  \A c \in CallIds :
    LET call == calls[c] IN
    Parsing(call) =>
      /\ InputText(call) \in {"bad", "undecodable"} => ParseErrorAnswer(call)
      /\ (call.method # "GET" /\ call.body = "none") => ParseErrorAnswer(call)
      /\ (call.method = "GET" /\ call.query \in {"none", "empty"}) =>
           /\ ~ErrorIs(call, 400, "PARSE_ERROR")
           /\ call.proc[1].inputSchema = <<>> => call.input = <<>>

\* a GET call whose `input` parameter holds a document decode throws for was
\* answered 400 before the validator and the middleware of the procedure
C32_Witness ==
  \E c \in CallIds :
    /\ Parsing(calls[c])
    /\ calls[c].method = "GET"
    /\ calls[c].query = "undecodable"
    /\ ParseErrorAnswer(calls[c])
    /\ \/ calls[c].proc[1].inputSchema # <<>>
       \/ calls[c].proc[1].middlewares # <<>>

-----------------------------------------------------------------------------
(* RPC validated input *)

\* C33: validated input is what the handler sees. When the input validator
\* accepts the parsed input, the input of the call, which runProcedure hands
\* to the handler, is the validator's result.data and not the parsed value;
\* the validator is run exactly once per call (never without a validator
\* attached), before the context factory and before any middleware.
C33_ValidatedInput ==
  \A c \in CallIds :
    LET call == calls[c] IN
    /\ Occurrences(call.invoked, "inputValidator") =
         IF PastParsing(call) /\ call.proc[1].inputSchema # <<>> THEN 1 ELSE 0
    /\ \A i \in 1..Len(call.invoked) :
         call.invoked[i] = "inputValidator" => i = 1
    /\ (call.trace # <<>> /\ call.proc[1].inputSchema # <<>>) =>
         call.invoked[1] = "inputValidator" /\ Len(call.invoked) >= 2
    /\ (call.validated # <<>> /\ call.validated[1].success) =>
         /\ call.input = <<call.validated[1].data>>
         /\ call.input # ParseInput(call.method, call.query, call.body).raw

\* the validator accepted a parsed JSON body, and the middleware and the
\* handler of the procedure ran with its result.data as the input
C33_Witness ==
  \E c \in CallIds :
    /\ calls[c].validated # <<>>
    /\ calls[c].validated[1].success
    /\ calls[c].body = "ok"
    /\ calls[c].input = <<Val("data", 0)>>
    /\ calls[c].invoked = <<"inputValidator", "contextFactory">>
    /\ \E i \in 1..Len(calls[c].trace) : calls[c].trace[i].ev = "before"
    /\ \E i \in 1..Len(calls[c].trace) : calls[c].trace[i].ev = "handler"

-----------------------------------------------------------------------------
(* RPC middleware short-circuit *)

\* the positions of the trace at which a middleware or the handler was
\* invoked
InvocationSteps(call) ==
  {i \in 1..Len(call.trace) : call.trace[i].ev \in {"before", "handler"}}

\* the trace position of the k-th middleware invocation
NthBefore(call, k) ==
  CHOOSE i \in InvocationSteps(call) :
    /\ call.trace[i].ev = "before"
    /\ Cardinality({j \in 1..i : call.trace[j].ev = "before"}) = k

\* the short-circuiting middleware's value became the response of the call
ShortCircuitAnswer(call, mw) ==
  /\ call.proc[1].outputSchema # <<>> =>
       Occurrences(call.invoked, "outputValidator") = 1
  /\ (call.proc[1].outputSchema = <<>> \/ call.verdict = <<"accept">>) =>
       /\ call.response[1].status = 200
       /\ call.response[1].body.error = <<>>
       /\ call.response[1].body.result = <<encode(Val("mw", mw))>>

\* C34 (as claimed): RPC middleware short-circuit. After a middleware
\* returned without calling next(), no later middleware and not the handler
\* are invoked in that call; its return value is the procedure result
\* (passed on by the middlewares around it): it goes through output
\* validation if a validator is attached and is answered wire-encoded in a
\* success envelope with status 200.
C34_ShortCircuit_Claim ==
  \A c \in CallIds :
    LET call == calls[c] IN
    \A k \in 1..Len(call.behs) :
      call.behs[k] = "short" =>
        /\ \A i \in InvocationSteps(call) : i <= NthBefore(call, k)
        /\ (/\ call.st = "done"
            /\ \A j \in 1..(k - 1) : call.behs[j] = "next") =>
             ShortCircuitAnswer(call, call.trace[NthBefore(call, k)].who)

-----------------------------------------------------------------------------
(* Wire codec: detection of tagged values *)

\* the keys of a keyed structure
KeysOf(doc) == {doc.entries[i][1] : i \in 1..Len(doc.entries)}

\* doc decoded value-wise: every key kept, every value decoded
ValueWise(doc) ==
  LET dec == [i \in 1..Len(doc.entries) |-> decode(doc.entries[i][2])] IN
  IF AnyThrown(dec) THEN Thrown
  ELSE Obj([i \in 1..Len(dec) |-> <<doc.entries[i][1], dec[i]>>])

\* C36 (as claimed): tagged-value detection. decode interprets a keyed
\* structure as a tagged value only when its keys are exactly `__t` and `v`;
\* a keyed structure with these two keys and further keys, or with only one
\* of them, is decoded value-wise with all of its keys preserved.
C36_TaggedDetection_Claim ==
  wire.st = "received" =>
    LET doc == wire.document[1] IN
    (doc.t = "object" /\ KeysOf(doc) # {"__t", "v"}) =>
      wire.decoded[1] = ValueWise(doc)

-----------------------------------------------------------------------------
(* Concurrent RPC calls *)

\* the invocations of a call, in order: its middlewares and its handler
InvocationsInOrder(call) ==
  SelectSeq(call.trace, LAMBDA e : e.ev \in {"before", "handler"})

\* The keys on a context object, when every middleware sets on the ctx it
\* is handed a key naming the call it runs in and itself.
ContextKeys(object) ==
  UNION { {<<c, calls[c].trace[i].who>> :
             i \in {j \in 1..Len(calls[c].trace) :
                       calls[c].trace[j].ev = "before"}} :
          c \in {d \in CallIds : calls[d].ctx = <<object>>} }

\* C35: concurrent RPC calls do not interfere. With two handle() calls in
\* flight on one RPCHandler, interleaved at any suspension point, each call
\* has its own context object and its own position in the middleware chain:
\* the n-th invocation within a call is the n-th middleware of the
\* procedure, the handler after the last, and a key set on the context of
\* one call is never on the context of the other (default context factory).
C35_NoInterference ==
  \A c \in CallIds :
    LET call == calls[c]
        order == InvocationsInOrder(call)
    IN
    /\ \A n \in 1..Len(order) :
         IF n <= Len(call.proc[1].middlewares)
         THEN order[n].ev = "before"
              /\ order[n].who = call.proc[1].middlewares[n]
         ELSE order[n].ev = "handler"
    /\ call.ctx # <<>> =>
         \A key \in ContextKeys(call.ctx[1]) : key[1] = c

\* both calls are between their first and their second middleware
C35_Witness ==
  \A c \in CallIds :
    /\ calls[c].st = "enter"
    /\ calls[c].index = 1
    /\ Len(calls[c].proc[1].middlewares) = 2
    /\ calls[c].ctx # <<>>

====
